---- MODULE Spec2Model ----
(***************************************************************************)
(* The connection orchestrator of kiskord (src/src/hooks/useWebRTC.ts):    *)
(* the join effect of the useWebRTC hook, its four Firestore listeners,    *)
(* the offer/answer/ICE handshake per pair of participants, the grace      *)
(* timer on connectivity failure and the effect's cleanup (teardown).      *)
(*                                                                         *)
(* Each participant runs the hook on its own single-threaded event loop:   *)
(* one action of the model is one run of a callback or of a continuation   *)
(* from one await to the next.  A Firestore write (setDoc, addDoc,         *)
(* deleteDoc) takes effect where it is called; its promise resolves in a   *)
(* later step.  A listener is handed the collection as it is when the      *)
(* snapshot is delivered, with the documents it has not yet seen as        *)
(* "added".  RTCPeerConnection behaves as the WebRTC standard says: an     *)
(* operation on a closed connection never continues the caller's try       *)
(* block (it rejects, or never settles when the close came while it was in *)
(* flight), and an answer is accepted in have-local-offer only.            *)
(***************************************************************************)
EXTENDS Integers, Sequences, FiniteSets, TLC

\* ------------------------------------------------------------------ bounds
MaxSess == 2   \* runs of the join effect (mount, cleanup, mount) per hook
MaxMounts == 3 \* runs of the join effect, of all hooks together
MaxPc == 2   \* RTCPeerConnection objects one hook constructs
MaxCand == 1   \* ICE candidates one transport emits
MaxFail == 1   \* connectivity failures the network causes, in all
BufLen == 2   \* samples in an analyser's time-domain buffer
MaxFlaps == 2   \* connectivity failures where a transport fails again

\* ------------------------------------------------------------ participants
\* Clients run the hook.  Ids are the ids a roster document can have: the
\* clients', and one participant whose record is in the roster while none of
\* its own callbacks is scheduled.
Clients == {1, 2}
Ids == {1, 2, 3}
Quiet == Ids \ Clients

\* user.uid / doc.id: strings, as sequences of code units.
Uid(i) == CASE i = 1 -> <<1, 2>> [] i = 2 -> <<2>> [] OTHER -> <<1, 2, 1>>

\* JavaScript's < on strings: the first differing code unit decides, and a
\* proper prefix is smaller.
RECURSIVE LexLess(_, _)
LexLess(a, b) ==
    IF b = <<>> THEN FALSE
    ELSE IF a = <<>> THEN TRUE
    ELSE IF Head(a) # Head(b) THEN Head(a) < Head(b)
    ELSE LexLess(Tail(a), Tail(b))

\* A plausible slip: every client initiates to every other participant.
ShouldInitiateBoth(self, other) == self # other

\* user.uid < doc.id
ShouldInitiate(self, other) == LexLess(Uid(self), Uid(other))

\* snapshot.docs: the documents of the collection ordered by document id.
MinId(S) == CHOOSE x \in S : \A y \in S \ {x} : LexLess(Uid(x), Uid(y))
RECURSIVE SortedDocs(_)
SortedDocs(S) ==
    IF S = {} THEN <<>> ELSE <<MinId(S)>> \o SortedDocs(S \ {MinId(S)})

Range(f) == {f[x] : x \in DOMAIN f}

Sessions == 1..MaxSess

VARIABLES
    roster,        \* ids with a document in rooms/R/participants
    mail,          \* documents in the incoming_offers/answers/ice mailboxes
    pcs,           \* pcs[c]: the RTCPeerConnection objects c constructed, in order
    pmap,          \* peerConnections.current of c: remote id -> index in pcs[c], 0 for none
    sess,          \* runs of c's join effect so far
    mounted,       \* c's join effect is mounted (run and not yet cleaned up)
    join,          \* join[c][s]: where join() of run s is
    subs,          \* subs[c][s]: the four onSnapshot listeners of run s
    seenRoster,    \* seenRoster[c][s]: the last roster snapshot handed to run s
    seenDocs,      \* seenDocs[c][s]: mailbox documents handed to run s as added
    tasks,         \* callbacks suspended at an await, and pending timers
    participants,  \* the participants state the hook exposes
    rawTrack,      \* rawTrack[c][s]: the getUserMedia track of run s
    procTrack,     \* procTrack[c][s]: the destination node's track of run s
    localStreamRef,\* localStreamRef.current of c: <<run, "raw"|"proc">>, or <<0, "none">>
    torn,          \* torn[c][s]: the cleanup of run s has run
    published,     \* published[c][s]: join() of run s called setDoc on the own record
    alerted,       \* alerted[c][s]: run s raised the microphone alert
    nfail,         \* connectivity failures so far
    obs,           \* what a specification keeps track of, beyond the handshake:
                   \* "media" (the tracks and localStreamRef), "list" (participants),
                   \* "clock" (the age of the timers), "stream" (which stream
                   \* initLocalStream returns)
    joinStream,    \* joinStream[c][s]: the stream initLocalStream returned to join()
                   \* of run s: "final", "raw", or "none"
    audioContextRef, \* audioContextRef.current of c: "open", or "none" for null
    isMuted,       \* the isMuted state the hook exposes
    disabledTracks,\* disabledTracks[c]: the local tracks <<run, kind>> with enabled = false
    rosterMuted,   \* ids whose roster record has isMuted: true
    loopDeps,      \* loopDeps[c]: the localStream the detection effect last ran with
    frames,        \* frames[c]: animation frames requested by detectSpeaking and pending
    frameRef,      \* frameRef[c]: animationFrameRef.current is a pending frame
    analysers,     \* analysers[c]: the ids with an entry in analysersRef.current
    freqData,      \* freqData[c][i]: the mean of analyser i's byte frequency data
    timeData,      \* timeData[c][i]: analyser i's byte time-domain data
    speakingPeers, \* speakingPeers[c]: the Set object in the speakingPeers state
    voiceLevel,    \* voiceLevel[c]: the voiceLevel state
    audioOptions,  \* audioOptions[c]: the options the Room page passes to the hook,
                   \* which currentAudioOptionsRef.current follows
    graph,         \* graph[c]: the connections between the audio nodes the hook's
                   \* refs and the last built graph hold, as <<from, to>>
    worklet,       \* worklet[c][s]: what became of the noise-suppression worklet
                   \* of run s: "none", "ready", "noModule", "noNode"
    audioElements, \* audioElements[c]: the ids with an element in audioElementsRef
    remoteSources  \* remoteSources[c]: the ids with a node in remoteStreamSourcesRef

vars == <<roster, mail, pcs, pmap, sess, mounted, join, subs, seenRoster,
          seenDocs, tasks, participants, rawTrack, procTrack, localStreamRef,
          torn, published, alerted, nfail, obs,
                   joinStream, audioContextRef, isMuted, disabledTracks, rosterMuted,
          loopDeps, frames, frameRef, analysers, freqData, timeData,
          speakingPeers, voiceLevel, audioOptions, graph, worklet,
          audioElements, remoteSources>>

sessVars == <<sess, mounted, join, subs, torn, published, alerted, joinStream>>
mediaVars == <<rawTrack, procTrack, localStreamRef, audioContextRef>>
seenVars == <<seenRoster, seenDocs>>
loopVars == <<loopDeps, frames, frameRef>>
meterVars == <<analysers, freqData, timeData, speakingPeers, voiceLevel>>
graphVars == <<audioOptions, graph, worklet>>
sinkVars == <<audioElements, remoteSources>>
localVars == <<obs, isMuted, disabledTracks, loopVars, meterVars, graphVars, sinkVars>>
uiVars == <<localVars, rosterMuted>>
\* What a handler that is given a remote track leaves alone.
quietVars == <<obs, isMuted, disabledTracks, loopVars, freqData, timeData,
               speakingPeers, voiceLevel, graphVars, rosterMuted>>

\* ----------------------------------------------------------------- values
NoPeer == <<0, 0>>
\* A Uint8Array element, and the value getByteTimeDomainData gives a sample
\* of a silent signal.
MaxByte == 255
MidByte == 128
Silence == [i \in 1..BufLen |-> MidByte]
\* analyser.frequencyBinCount is half the fftSize; the frequency data of a
\* silent signal.
FreqBins == BufLen \div 2
NoSound == [i \in 1..FreqBins |-> 0]
NoDoc == [kind |-> "none", pc |-> NoPeer, from |-> 0, to |-> 0, n |-> 0, re |-> NoPeer, s |-> 0]

\* The tracks of the stream initLocalStream returns: finalStream, a new
\* MediaStream given the destination node's audio track, or, should the
\* destination have no track, the getUserMedia stream (audio only).
StreamTracks(stream) ==
    CASE stream = "final" -> {"proc"}
      [] stream = "raw" -> {"raw"}
      [] OTHER -> {}

\* stream.getTracks().forEach(track => pc.addTrack(track, stream))
\* A plausible slip: the tracks are not added.
AddTracksNone(stream) == {}

AddTracks(stream) == StreamTracks(stream)

\* new RTCPeerConnection(STUN_SERVERS) with the stream's tracks added.
NewPc(c, target, s, origin) ==
    [target |-> target, s |-> s, origin |-> origin, sig |-> "stable",
     local |-> FALSE, remote |-> NoPeer, conn |-> "new", cand |-> FALSE,
     emitted |-> 0, nAns |-> 0, fails |-> 0, senders |-> AddTracks(joinStream[c][s])]

Closed(p) == p.sig = "closed"
\* pc.close().  What a closed transport held (descriptions, candidates) is
\* of no effect any more and is dropped from the state.
ClosePc(p) ==
    [p EXCEPT !.sig = "closed", !.conn = "closed", !.local = FALSE,
              !.remote = NoPeer, !.cand = FALSE, !.emitted = 0, !.fails = 0]

PcIds == {<<c, k>> : c \in Clients, k \in 1..MaxPc}
Live(id) == id[1] \in Clients /\ id[2] \in 1..Len(pcs[id[1]])
PcOf(id) == pcs[id[1]][id[2]]

\* A specification that is not about the media, or the exposed list, leaves
\* those variables at their initial values: they record what the hook has
\* done and decide nothing it does.
Observes(x) == x \in obs

\* No hook is mounted, the mailboxes are empty.
InitJoin ==
    /\ mail = {}
    /\ pcs = [c \in Clients |-> <<>>]
    /\ pmap = [c \in Clients |-> [i \in Ids |-> 0]]
    /\ sess = [c \in Clients |-> 0]
    /\ mounted = [c \in Clients |-> FALSE]
    /\ join = [c \in Clients |-> [s \in Sessions |-> "none"]]
    /\ subs = [c \in Clients |-> [s \in Sessions |-> "none"]]
    /\ seenRoster = [c \in Clients |-> [s \in Sessions |-> {0}]]
    /\ seenDocs = [c \in Clients |-> [s \in Sessions |-> {}]]
    /\ tasks = {}
    /\ participants = [c \in Clients |-> {}]
    /\ rawTrack = [c \in Clients |-> [s \in Sessions |-> "none"]]
    /\ procTrack = [c \in Clients |-> [s \in Sessions |-> "none"]]
    /\ localStreamRef = [c \in Clients |-> <<0, "none">>]
    /\ torn = [c \in Clients |-> [s \in Sessions |-> FALSE]]
    /\ published = [c \in Clients |-> [s \in Sessions |-> FALSE]]
    /\ alerted = [c \in Clients |-> [s \in Sessions |-> FALSE]]
    /\ nfail = 0
    /\ joinStream = [c \in Clients |-> [s \in Sessions |-> "none"]]
    /\ audioContextRef = [c \in Clients |-> "none"]

\* Nobody is muted.
InitMute ==
    /\ isMuted = [c \in Clients |-> FALSE]
    /\ disabledTracks = [c \in Clients |-> {}]
    /\ rosterMuted = {}

\* The detection effect has run with no local stream: no frame is requested.
InitLoop ==
    /\ loopDeps = [c \in Clients |-> <<0, "none">>]
    /\ frames = [c \in Clients |-> 0]
    /\ frameRef = [c \in Clients |-> FALSE]

\* No analyser is registered; an analyser that hears nothing reports the
\* midpoint for every sample.
InitMeter ==
    /\ analysers = [c \in Clients |-> {}]
    /\ freqData = [c \in Clients |-> [i \in Ids |-> NoSound]]
    /\ timeData = [c \in Clients |-> [i \in Ids |-> Silence]]
    /\ speakingPeers = [c \in Clients |-> [ref |-> 0, ids |-> {}]]
    /\ voiceLevel = [c \in Clients |-> 0]

\* The audioOptions state of the Room page as useState creates it.
RoomOptions == [audioQuality |-> "basic", useRNNoise |-> FALSE, highPassFilter |-> FALSE]

\* No graph is built, no worklet module is asked for.
InitGraph ==
    /\ graph = [c \in Clients |-> {}]
    /\ worklet = [c \in Clients |-> [s \in Sessions |-> "none"]]

\* No remote track has arrived.
InitSinks ==
    /\ audioElements = [c \in Clients |-> {}]
    /\ remoteSources = [c \in Clients |-> {}]

InitRefs == InitJoin /\ InitMute /\ InitLoop /\ InitMeter /\ InitGraph /\ InitSinks

InitHooks == InitRefs /\ audioOptions = [c \in Clients |-> RoomOptions]

\* ------------------------------------------------------------- audio graph
\* audioQuality, and the options that take part in building the graph.
Qualities == {"basic", "balanced", "professional", "ultra"}
Options == [audioQuality : Qualities, useRNNoise : BOOLEAN, highPassFilter : BOOLEAN]

\* What initLocalStream connects whatever the options: the analyser on the
\* raw input, and the self-monitor to the speakers.
BaseEdges ==
    {<<"source", "analyser">>, <<"source", "monitorGain">>,
     <<"monitorGain", "stereoPanner">>, <<"stereoPanner", "speakers">>}

\* `useRNNoise && audioQuality !== 'basic'`
UseRNNoiseProcessing(o) == o.useRNNoise /\ o.audioQuality # "basic"

\* `audioQuality === 'professional' || ... 'balanced' || ... 'ultra'`
UseProfessional(o) == o.audioQuality \in {"professional", "balanced", "ultra"}

\* `source.connect(destination)`
PassThroughEdges == {<<"source", "destination">>}

\* proChain.connectWithRNNoise(source, rnnoiseNode, destination): the chain's
\* optional high-pass stage, the noise suppression, the chain's compression.
ConnectWithRNNoise(o) ==
    (IF o.highPassFilter
     THEN {<<"source", "chainFilter">>, <<"chainFilter", "rnnoise">>}
     ELSE {<<"source", "rnnoise">>})
    \cup {<<"rnnoise", "chainCompressor">>, <<"chainCompressor", "destination">>}

\* The simple chain: source, the high-pass filter unless switched off, the
\* noise suppression, the compressor, the destination; and the destination
\* to the self-monitor.
SimpleChainEdges(o) ==
    (IF o.highPassFilter
     THEN {<<"source", "hpf">>, <<"hpf", "rnnoise">>}
     ELSE {<<"source", "rnnoise">>})
    \cup {<<"rnnoise", "compressor">>, <<"compressor", "destination">>,
          <<"destination", "monitorGain">>, <<"monitorGain", "speakers">>}

\* The catch of the RNNoise block: source, compressor, destination.
\* A plausible slip: the compressor is not connected to the destination.
FallbackEdgesUnconnected ==
    {<<"source", "compressor">>, <<"compressor", "analyser">>}

FallbackEdges ==
    {<<"source", "compressor">>, <<"compressor", "analyser">>,
     <<"compressor", "destination">>}

\* The nodes the cleanup disconnects: those a ref of the hook names (the
\* professional chain disconnects its own stages).
Disconnected ==
    {"hpf", "chainFilter", "chainCompressor", "rnnoise", "source", "destination",
     "monitorGain"}

\* node.disconnect() on each of them: their outgoing connections are gone.
Disconnect(g) == {e \in g : e[1] \notin Disconnected}

Init ==
    /\ obs = {"media", "list"}
    /\ roster \in {{}, Quiet}
    /\ InitHooks

\* ------------------------------------------------------------ join effect
\* The effect runs: join() is called and suspends in initLocalStream at
\* getUserMedia.
StartJoin(c) ==
    /\ ~mounted[c]
    /\ sess[c] < MaxSess
    /\ sess' = [sess EXCEPT ![c] = @ + 1]
    /\ mounted' = [mounted EXCEPT ![c] = TRUE]
    /\ join' = [join EXCEPT ![c][sess[c] + 1] = "mic"]
    /\ UNCHANGED <<roster, mail, pcs, pmap, subs, seenVars, tasks, participants,
                   mediaVars, torn, published, alerted, nfail, uiVars,
                   joinStream>>

\* The Room page mounts the hook with a room and a user.
Mount(c) == sess[c] = 0 /\ StartJoin(c)

\* The effect runs again after its cleanup: the page is entered again, or a
\* dependency of the effect (user, roomId) changed.
Remount(c) ==
    /\ sess[c] > 0
    /\ sess[1] + sess[2] < MaxMounts
    /\ StartJoin(c)

\* getUserMedia resolves: localStreamRef.current = stream, and
\* initLocalStream suspends at loadRNNoise.
MicGranted(c, s) ==
    /\ join[c][s] = "mic"
    /\ rawTrack' = IF Observes("media") THEN [rawTrack EXCEPT ![c][s] = "live"]
                   ELSE rawTrack
    /\ localStreamRef' = IF Observes("media")
                         THEN [localStreamRef EXCEPT ![c] = <<s, "raw">>]
                         ELSE localStreamRef
    /\ join' = [join EXCEPT ![c][s] = "rnn"]
    /\ UNCHANGED <<roster, mail, pcs, pmap, sess, mounted, subs, seenVars, tasks,
                   participants, procTrack, torn, published, alerted, nfail, uiVars,
                   joinStream, audioContextRef>>

\* `if (!stream) return;` of join().
\* A plausible slip: the check is missing.
JoinProceedsUnchecked(stream) == TRUE

JoinProceeds(stream) == stream # "null"

\* join() from the value initLocalStream returned to its next await: it
\* returns on a null stream, and calls setDoc on the own record (with
\* isMuted: false) otherwise.
JoinContinue(c, s, stream) ==
    IF JoinProceeds(stream)
    THEN /\ roster' = roster \cup {c}
         /\ rosterMuted' = rosterMuted \ {c}
         /\ published' = [published EXCEPT ![c][s] = TRUE]
         /\ join' = [join EXCEPT ![c][s] = "setdoc"]
    ELSE /\ join' = [join EXCEPT ![c][s] = "returned"]
         /\ UNCHANGED <<roster, rosterMuted, published>>

\* getUserMedia rejects: the catch of initLocalStream alerts and returns
\* null.
MicDenied(c, s) ==
    /\ join[c][s] = "mic"
    /\ alerted' = [alerted EXCEPT ![c][s] = TRUE]
    /\ JoinContinue(c, s, "null")
    /\ UNCHANGED <<mail, pcs, pmap, sess, mounted, subs, seenVars, tasks,
                   participants, mediaVars, torn, nfail, localVars,
                   joinStream>>

\* What initLocalStream may return once the graph is built: finalStream
\* with the destination node's track; a specification that observes the
\* stream also takes the branches that return the getUserMedia stream.
ReturnedStreams == IF Observes("stream") THEN {"final", "raw"} ELSE {"final"}

\* initLocalStream returns stream st: with finalStream the destination
\* node's track becomes the local stream, the context is kept in
\* audioContextRef and the local analyser is registered under the own id;
\* join() goes on.
InitReturns(c, s, st) ==
    /\ joinStream' = [joinStream EXCEPT ![c][s] = st]
    /\ procTrack' = IF Observes("media") /\ st = "final"
                    THEN [procTrack EXCEPT ![c][s] = "live"]
                    ELSE procTrack
    /\ localStreamRef' = IF Observes("media")
                         THEN [localStreamRef EXCEPT
                                 ![c] = <<s, IF st = "final" THEN "proc" ELSE "raw">>]
                         ELSE localStreamRef
    /\ audioContextRef' = IF Observes("media") /\ st = "final"
                          THEN [audioContextRef EXCEPT ![c] = "open"]
                          ELSE audioContextRef
    /\ analysers' = IF Observes("media") /\ st = "final"
                    THEN [analysers EXCEPT ![c] = @ \cup {c}]
                    ELSE analysers
    /\ JoinContinue(c, s, st)

\* What becomes of the worklet: addModule resolves and the node is
\* constructed, addModule rejects (the node's processor is then unknown and
\* its construction raises), or the construction raises on its own.  A
\* specification that does not observe the graph does not tell them apart.
WorkletOutcomes ==
    IF Observes("graph") THEN {"ready", "noModule", "noNode"} ELSE {"none"}

\* loadRNNoise settles (its failure is caught) and the graph is built from
\* the options currentAudioOptionsRef holds.  Without RNNoise processing
\* the source is connected to the destination and initLocalStream returns;
\* with it, the worklet node is constructed and initLocalStream suspends at
\* the fetch of the WASM file, or the construction raises and the catch
\* builds the fallback graph and returns.
StreamReady(c, s) ==
    LET o == audioOptions[c] IN
    /\ join[c][s] = "rnn"
    /\ \E w \in WorkletOutcomes :
         /\ worklet' = IF Observes("graph") THEN [worklet EXCEPT ![c][s] = w]
                       ELSE worklet
         /\ IF Observes("graph") /\ UseRNNoiseProcessing(o) /\ w = "ready"
            THEN /\ graph' = [graph EXCEPT ![c] = BaseEdges]
                 /\ join' = [join EXCEPT ![c][s] = "wasm"]
                 /\ UNCHANGED <<joinStream, procTrack, localStreamRef, audioContextRef,
                                analysers, roster, rosterMuted, published>>
            ELSE /\ graph' = IF ~Observes("graph") THEN graph
                             ELSE IF UseRNNoiseProcessing(o)
                             THEN [graph EXCEPT ![c] = BaseEdges \cup FallbackEdges]
                             ELSE [graph EXCEPT ![c] = BaseEdges \cup PassThroughEdges]
                 /\ \E st \in ReturnedStreams : InitReturns(c, s, st)
    /\ UNCHANGED <<mail, pcs, pmap, sess, mounted, subs, seenVars, tasks,
                   participants, rawTrack, torn, alerted, nfail, obs, isMuted,
                   disabledTracks, loopVars, freqData, timeData, speakingPeers,
                   voiceLevel, audioOptions, sinkVars>>

\* The fetch of the WASM file settles (its failure is caught): the node is
\* initialised, the professional chain or the simple chain is connected
\* as the options say now, and initLocalStream returns.
WasmFetched(c, s) ==
    LET o == audioOptions[c] IN
    /\ join[c][s] = "wasm"
    /\ graph' = [graph EXCEPT ![c] =
                   BaseEdges \cup (IF UseProfessional(o) THEN ConnectWithRNNoise(o)
                                   ELSE SimpleChainEdges(o))]
    /\ \E st \in ReturnedStreams : InitReturns(c, s, st)
    /\ UNCHANGED <<mail, pcs, pmap, sess, mounted, subs, seenVars, tasks,
                   participants, rawTrack, torn, alerted, nfail, obs, isMuted,
                   disabledTracks, loopVars, freqData, timeData, speakingPeers,
                   voiceLevel, audioOptions, worklet, sinkVars>>

\* setAudioOptions of the Room page and the render after it: the options
\* effect stores them in currentAudioOptionsRef, tells the RNNoise node to
\* enable or disable itself and applies the constraint-level toggles to
\* the capture track.  No dependency of the join effect has changed.
SetOptions(c, o) ==
    /\ mounted[c]
    /\ o # audioOptions[c]
    /\ audioOptions' = [audioOptions EXCEPT ![c] = o]
    /\ UNCHANGED <<roster, mail, pcs, pmap, sessVars, seenVars, tasks, participants,
                   mediaVars, nfail, rosterMuted, obs, isMuted, disabledTracks,
                   loopVars, meterVars, graph, worklet, sinkVars>>

\* `await setDoc(...)` stands before the first onSnapshot: the listeners
\* are created once join() is past its roster write.
\* A plausible slip: the listeners are created before the write.
ReadyToSubscribeEarly(step) == step \in {"rnn", "setdoc"}

ReadyToSubscribe(step) == step = "setdoc"

\* setDoc resolves: join() creates the four listeners, one after the other
\* without an await between them, and returns.
Subscribe(c, s) ==
    /\ ReadyToSubscribe(join[c][s])
    /\ join' = [join EXCEPT ![c][s] = "done"]
    /\ subs' = [subs EXCEPT ![c][s] = "active"]
    /\ UNCHANGED <<roster, mail, pcs, pmap, sess, mounted, seenVars, tasks,
                   participants, mediaVars, torn, published, alerted, nfail, uiVars,
                   joinStream>>

\* track.stop() on every track of localStreamRef.current.
StopLocal(c) ==
    LET r == localStreamRef[c] IN
    /\ rawTrack' = IF r[2] = "raw" THEN [rawTrack EXCEPT ![c][r[1]] = "ended"]
                   ELSE rawTrack
    /\ procTrack' = IF r[2] = "proc" THEN [procTrack EXCEPT ![c][r[1]] = "ended"]
                    ELSE procTrack
    /\ UNCHANGED localStreamRef

\* pc.close() on every entry of peerConnections.current, which is then {}.
\* A plausible slip: the map is reset without closing its entries.
CloseAllForgetful(c) ==
    /\ pmap' = [pmap EXCEPT ![c] = [i \in Ids |-> 0]]
    /\ UNCHANGED pcs

CloseAll(c) ==
    /\ pcs' = [pcs EXCEPT ![c] =
                 [k \in DOMAIN @ |-> IF k \in Range(pmap[c]) THEN ClosePc(@[k]) ELSE @[k]]]
    /\ pmap' = [pmap EXCEPT ![c] = [i \in Ids |-> 0]]

\* doc(db, "rooms", roomId, "participants", user.uid): the roster record a
\* client's deleteDoc and updateDoc name.
\* A plausible slip: the whole participants collection is named.
AllRecords(c) == Ids

OwnRecord(c) == {c}

\* `if (localStreamRef.current)` of the cleanup.
\* A plausible slip: the tracks are stopped without the check.
HasStreamUnchecked(ref) == TRUE

HasStream(ref) == ref[2] # "none"

\* `if (audioContextRef.current && ...state !== 'closed')` of the cleanup.
HasContext(ctx) == ctx # "none"

\* `if (unsubParticipants)` and the three like it: the variable is
\* undefined until onSnapshot has returned.
HasUnsub(sub) == sub # "none"

\* The cleanup of the join effect (unmount, or a dependency changed): stop
\* the local tracks, close the transports, delete the own roster record,
\* close the audio context, and call the unsubscribe functions this run has
\* been given so far.  A call on a reference that is null raises, and what
\* raises ends the cleanup there: torn records that the cleanup reached
\* its end.
Teardown(c) ==
    LET s == sess[c]
        stopRaises == HasStream(localStreamRef[c]) /\ localStreamRef[c][2] = "none"
        closeRaises == HasContext(audioContextRef[c]) /\ audioContextRef[c] = "none"
        unsubRaises == HasUnsub(subs[c][s]) /\ subs[c][s] = "none"
    IN
    /\ mounted[c]
    /\ mounted' = [mounted EXCEPT ![c] = FALSE]
    /\ IF stopRaises
       THEN UNCHANGED <<mediaVars, pcs, pmap, roster, rosterMuted, subs, seenVars, torn,
                        graph, sinkVars>>
       ELSE /\ StopLocal(c)
            /\ CloseAll(c)
            /\ audioElements' = [audioElements EXCEPT ![c] = {}]
            /\ remoteSources' = [remoteSources EXCEPT ![c] = {}]
            /\ graph' = [graph EXCEPT ![c] = Disconnect(@)]
            /\ roster' = roster \ OwnRecord(c)
            /\ rosterMuted' = rosterMuted \ OwnRecord(c)
            /\ IF closeRaises
               THEN UNCHANGED <<audioContextRef, subs, seenVars, torn>>
               ELSE /\ audioContextRef' = [audioContextRef EXCEPT ![c] = "none"]
                    /\ IF unsubRaises
                       THEN UNCHANGED <<subs, seenVars, torn>>
                       ELSE /\ torn' = [torn EXCEPT ![c][s] = TRUE]
                            /\ subs' = [subs EXCEPT
                                          ![c][s] = IF @ = "active" THEN "cancelled" ELSE @]
                            /\ seenRoster' = [seenRoster EXCEPT
                                   ![c][s] = IF subs[c][s] = "active" THEN {0} ELSE @]
                            /\ seenDocs' = [seenDocs EXCEPT
                                   ![c][s] = IF subs[c][s] = "active" THEN {} ELSE @]
    /\ UNCHANGED <<mail, sess, join, tasks, participants, published, alerted, nfail,
                   obs, isMuted, disabledTracks, loopVars, meterVars, audioOptions,
                   worklet, joinStream>>

\* handleBeforeUnload, registered while the effect is mounted: deleteDoc of
\* the own roster record.
BeforeUnload(c) ==
    /\ mounted[c]
    /\ roster' = roster \ OwnRecord(c)
    /\ rosterMuted' = rosterMuted \ OwnRecord(c)
    /\ UNCHANGED <<mail, pcs, pmap, sessVars, seenVars, tasks, participants,
                   mediaVars, nfail, localVars>>

\* toggleMute: with a local stream that has an audio track, flip the
\* track's enabled, set isMuted to its negation, and updateDoc the own
\* roster record with it (an update of a record that is not there writes
\* nothing).
ToggleMute(c) ==
    LET track == localStreamRef[c]
        nowMuted == track \notin disabledTracks[c]
    IN  /\ track[2] # "none"
        /\ disabledTracks' = [disabledTracks EXCEPT
                                ![c] = IF nowMuted THEN @ \cup {track} ELSE @ \ {track}]
        /\ isMuted' = [isMuted EXCEPT ![c] = nowMuted]
        /\ rosterMuted' = IF c \in roster
                          THEN (IF nowMuted THEN rosterMuted \cup OwnRecord(c)
                                ELSE rosterMuted \ OwnRecord(c))
                          ELSE rosterMuted
        /\ UNCHANGED <<roster, mail, pcs, pmap, sessVars, seenVars, tasks, participants,
                       mediaVars, nfail, obs, loopVars, meterVars, graphVars, sinkVars>>

\* ------------------------------------------------------- transports, tasks
Task(kind, c, s, k, step, doc, docs, i) ==
    [kind |-> kind, c |-> c, s |-> s, k |-> k, step |-> step, doc |-> doc,
     docs |-> docs, i |-> i]

\* `!peerConnections.current[id]`: no transport is registered for id.
\* A plausible slip: the presence check is missing.
NoLinkUnchecked(pm, id) == TRUE

NoLink(pm, id) == pm[id] = 0

\* `peerConnections.current[targetUserId] = pc` of createPeerConnection.
\* A plausible slip: the transport is not put into the map.
RegisterNothing(pm, id, k) == pm

Register(pm, id, k) == [pm EXCEPT ![id] = k]

\* The roster handler's loop: the first document at or after position i
\* that is another participant without a PeerLink to which this client
\* initiates; 0 when the loop reaches its end.
RECURSIVE NextInit(_, _, _, _)
NextInit(c, docs, i, pm) ==
    IF i > Len(docs) THEN 0
    ELSE IF docs[i] # c /\ NoLink(pm, docs[i]) /\ ShouldInitiate(c, docs[i]) THEN i
    ELSE NextInit(c, docs, i + 1, pm)

\* The roster handler from position i of its snapshot to its next await:
\* createPeerConnection and `await pc.createOffer()` for the next peer to
\* initiate to, or setParticipants when the loop is over.  T are the other
\* suspended tasks.
RosterRun(c, s, docs, i, T) ==
    LET j == NextInit(c, docs, i, pmap[c])
        k == Len(pcs[c]) + 1
    IN  IF j = 0
        THEN /\ participants' = IF Observes("list")
                                THEN [participants EXCEPT ![c] = Range(docs)]
                                ELSE participants
             /\ tasks' = T
             /\ UNCHANGED <<pcs, pmap>>
        ELSE /\ k <= MaxPc
             /\ pcs' = [pcs EXCEPT ![c] = Append(@, NewPc(c, docs[j], s, "roster"))]
             /\ pmap' = [pmap EXCEPT ![c] = Register(@, docs[j], k)]
             /\ tasks' = T \cup {Task("roster", c, s, k, "createOffer", NoDoc, docs, j)}
             /\ UNCHANGED participants

\* onSnapshot(participantsCollection): a snapshot of the roster is handed
\* to the listener of run s.
DeliverRoster(c, s) ==
    /\ subs[c][s] = "active"
    /\ seenRoster[c][s] # roster
    /\ seenRoster' = [seenRoster EXCEPT ![c][s] = roster]
    /\ RosterRun(c, s, SortedDocs(roster), 1, tasks)
    /\ UNCHANGED <<roster, mail, sessVars, seenDocs, mediaVars, nfail, uiVars>>

\* createOffer settles.  On a closed transport the handler never reaches its
\* next statement (it has no catch).
RosterOfferCreated(t) ==
    /\ t \in tasks /\ t.kind = "roster" /\ t.step = "createOffer"
    /\ tasks' = IF Closed(pcs[t.c][t.k]) THEN tasks \ {t}
                ELSE (tasks \ {t}) \cup {[t EXCEPT !.step = "setLocal"]}
    /\ UNCHANGED <<roster, mail, pcs, pmap, sessVars, seenVars, participants,
                   mediaVars, nfail, uiVars>>

OfferDoc(c, k, s) ==
    [kind |-> "offer", pc |-> <<c, k>>, from |-> c, to |-> pcs[c][k].target,
     n |-> 0, re |-> NoPeer, s |-> s]

\* setLocalDescription(offer) settles: the transport is in have-local-offer
\* and addDoc writes the offer to the peer's incoming_offers.
RosterLocalSet(t) ==
    /\ t \in tasks /\ t.kind = "roster" /\ t.step = "setLocal"
    /\ IF Closed(pcs[t.c][t.k])
       THEN /\ tasks' = tasks \ {t}
            /\ UNCHANGED <<pcs, mail>>
       ELSE /\ pcs' = [pcs EXCEPT ![t.c][t.k].sig = "have-local-offer",
                                  ![t.c][t.k].local = TRUE]
            /\ mail' = mail \cup {OfferDoc(t.c, t.k, t.s)}
            /\ tasks' = (tasks \ {t}) \cup {[t EXCEPT !.step = "addDoc"]}
    /\ UNCHANGED <<roster, pmap, sessVars, seenVars, participants, mediaVars, nfail, uiVars>>

\* addDoc resolves: the loop goes on with the next document.
RosterOfferSent(t) ==
    /\ t \in tasks /\ t.kind = "roster" /\ t.step = "addDoc"
    /\ RosterRun(t.c, t.s, t.docs, t.i + 1, tasks \ {t})
    /\ UNCHANGED <<roster, mail, sessVars, seenVars, mediaVars, nfail, uiVars>>

\* `await pc.createOffer()` or `await pc.setLocalDescription(offer)`
\* rejects.  The roster handler has no try around its loop: the rejection
\* leaves the handler, which takes no further step.
RosterOfferFails(t) ==
    /\ t \in tasks /\ t.kind = "roster" /\ t.step \in {"createOffer", "setLocal"}
    /\ tasks' = tasks \ {t}
    /\ UNCHANGED <<roster, mail, pcs, pmap, sessVars, seenVars, participants,
                   mediaVars, nfail, uiVars>>

\* setLocalDescription(offer) settles and `await addDoc(...)` of the offer
\* rejects: nothing is written, and the rejection leaves the handler.
RosterWriteFails(t) ==
    /\ t \in tasks /\ t.kind = "roster" /\ t.step = "setLocal"
    /\ ~Closed(pcs[t.c][t.k])
    /\ pcs' = [pcs EXCEPT ![t.c][t.k].sig = "have-local-offer",
                          ![t.c][t.k].local = TRUE]
    /\ tasks' = tasks \ {t}
    /\ UNCHANGED <<roster, mail, pmap, sessVars, seenVars, participants,
                   mediaVars, nfail, uiVars>>

\* --------------------------------------------------------------- mailboxes
\* The documents of one of c's mailboxes that the listener of run s has not
\* been handed yet: the "added" changes of its next snapshot.
Unseen(c, s, kind) ==
    {d \in mail : d.kind = kind /\ d.to = c /\ d \notin seenDocs[c][s]}

\* The orders in which forEach may visit the changes of one snapshot.
Orders(S) ==
    {f \in [1..Cardinality(S) -> S] : \A x, y \in DOMAIN f : x # y => f[x] # f[y]}

\* What the listeners have seen, kept for the documents still in a mailbox
\* (a deleted document is never written again).
SeenAfter(sd, m) == [c \in Clients |-> [s \in Sessions |-> sd[c][s] \cap m]]

\* `await deleteDoc(change.doc.ref)` of a document the handler does not
\* act on.
\* A plausible slip: the document is left in the mailbox.
DiscardNothing(m, d) == m

Discard(m, d) == m \ {d}

\* The offer handler's callback on each added document, up to its first
\* await: with no PeerLink for the sender, createPeerConnection and
\* `await pc.setRemoteDescription`; otherwise `await deleteDoc`.
\* st holds c's transports, c's peer map, the suspended tasks, the mailboxes.
RECURSIVE OfferFold(_, _, _, _)
OfferFold(c, s, ds, st) ==
    IF ds = <<>> THEN st
    ELSE LET d == Head(ds)
             k == Len(st.pcs) + 1
         IN  OfferFold(c, s, Tail(ds),
                 IF NoLink(st.pm, d.from)
                 THEN [st EXCEPT !.pcs = Append(@, NewPc(c, d.from, s, "offer")),
                                 !.pm = Register(@, d.from, k),
                                 !.tasks = @ \cup {Task("offer", c, s, k, "setRemote", d, <<>>, 0)}]
                 ELSE [st EXCEPT !.mail = Discard(@, d)])

\* onSnapshot(myOffersRef)
DeliverOffers(c, s) ==
    LET new == Unseen(c, s, "offer") IN
    /\ subs[c][s] = "active"
    /\ new # {}
    /\ \E ds \in Orders(new) :
         LET st == OfferFold(c, s, ds, [pcs |-> pcs[c], pm |-> pmap[c],
                                         tasks |-> tasks, mail |-> mail])
         IN  /\ Len(st.pcs) <= MaxPc
             /\ pcs' = [pcs EXCEPT ![c] = st.pcs]
             /\ pmap' = [pmap EXCEPT ![c] = st.pm]
             /\ tasks' = st.tasks
             /\ mail' = st.mail
             /\ seenDocs' = SeenAfter([seenDocs EXCEPT ![c][s] = @ \cup new], st.mail)
    /\ UNCHANGED <<roster, sessVars, seenRoster, participants, mediaVars, nfail, uiVars>>

\* An operation of the offer handler's try block was called on, or was in
\* flight on, a closed transport: it rejects and the catch leads to
\* deleteDoc, or it never settles and the callback stays suspended for good.
OfferAbort(t) ==
    /\ tasks' = tasks \ {t}
    /\ UNCHANGED pcs
    /\ \E settles \in BOOLEAN :
         mail' = IF settles THEN mail \ {t.doc} ELSE mail
    /\ seenDocs' = SeenAfter(seenDocs, mail')

\* The description written by transport id offers a track.
HasTracks(id) == PcOf(id).senders # {}

\* pc.ontrack, which a remote description with a track fires on the
\* transport for targetUserId: the peer's audio element is created if there
\* is none and, with an audio context, an analyser and a source node for
\* the remote stream are registered under the peer's id.  A specification
\* that does not observe the sinks leaves them out.
OnTrack(c, targetUserId, id) ==
    IF Observes("sinks") /\ HasTracks(id)
    THEN /\ audioElements' = [audioElements EXCEPT ![c] = @ \cup {targetUserId}]
         /\ IF HasContext(audioContextRef[c])
            THEN /\ analysers' = [analysers EXCEPT ![c] = @ \cup {targetUserId}]
                 /\ remoteSources' = [remoteSources EXCEPT ![c] = @ \cup {targetUserId}]
            ELSE UNCHANGED <<analysers, remoteSources>>
    ELSE UNCHANGED <<analysers, sinkVars>>

\* setRemoteDescription(offer) settles, and has fired ontrack.
OfferRemoteSet(t) ==
    /\ t \in tasks /\ t.kind = "offer" /\ t.step = "setRemote"
    /\ IF Closed(pcs[t.c][t.k])
       THEN /\ OfferAbort(t)
            /\ UNCHANGED <<analysers, sinkVars>>
       ELSE /\ pcs' = [pcs EXCEPT ![t.c][t.k].sig = "have-remote-offer",
                                  ![t.c][t.k].remote = t.doc.pc]
            /\ tasks' = (tasks \ {t}) \cup {[t EXCEPT !.step = "createAnswer"]}
            /\ OnTrack(t.c, pcs[t.c][t.k].target, t.doc.pc)
            /\ UNCHANGED <<mail, seenDocs>>
    /\ UNCHANGED <<roster, pmap, sessVars, seenRoster, participants, mediaVars, nfail,
                   quietVars>>

\* createAnswer settles.
OfferAnswerCreated(t) ==
    /\ t \in tasks /\ t.kind = "offer" /\ t.step = "createAnswer"
    /\ IF Closed(pcs[t.c][t.k]) THEN OfferAbort(t)
       ELSE /\ tasks' = (tasks \ {t}) \cup {[t EXCEPT !.step = "setLocal"]}
            /\ UNCHANGED <<pcs, mail, seenDocs>>
    /\ UNCHANGED <<roster, pmap, sessVars, seenRoster, participants, mediaVars, nfail, uiVars>>

\* collection(db, "rooms", roomId, "participants", fromUserId,
\* "incoming_answers"): the mailbox the answer is written to.
\* A plausible slip: the answer goes to the writer's own mailbox.
AnswerMailboxOwn(c, fromUserId) == c

AnswerMailbox(c, fromUserId) == fromUserId

AnswerDoc(c, k, s) ==
    [kind |-> "answer", pc |-> <<c, k>>, from |-> c,
     to |-> AnswerMailbox(c, pcs[c][k].target),
     n |-> 0, re |-> pcs[c][k].remote, s |-> s]

\* setLocalDescription(answer) settles: the transport is stable and addDoc
\* writes the answer to the sender's incoming_answers.
OfferLocalSet(t) ==
    /\ t \in tasks /\ t.kind = "offer" /\ t.step = "setLocal"
    /\ IF Closed(pcs[t.c][t.k]) THEN OfferAbort(t)
       ELSE /\ pcs' = [pcs EXCEPT ![t.c][t.k].sig = "stable",
                                  ![t.c][t.k].local = TRUE]
            /\ mail' = mail \cup {AnswerDoc(t.c, t.k, t.s)}
            /\ tasks' = (tasks \ {t}) \cup {[t EXCEPT !.step = "addDoc"]}
            /\ UNCHANGED seenDocs
    /\ UNCHANGED <<roster, pmap, sessVars, seenRoster, participants, mediaVars, nfail, uiVars>>

\* addDoc(answer) resolves: out of the try block, deleteDoc of the offer.
OfferAnswerSent(t) ==
    /\ t \in tasks /\ t.kind = "offer" /\ t.step = "addDoc"
    /\ tasks' = tasks \ {t}
    /\ mail' = mail \ {t.doc}
    /\ seenDocs' = SeenAfter(seenDocs, mail')
    /\ UNCHANGED <<roster, pcs, pmap, sessVars, seenRoster, participants,
                   mediaVars, nfail, uiVars>>

\* `pc && pc.signalingState === 'have-local-offer'`
\* A plausible slip: only the presence of the PeerLink is checked.
AnswerAcceptsAnyState(c, k) == k # 0

AnswerAccepts(c, k) == k # 0 /\ pcs[c][k].sig = "have-local-offer"

\* onSnapshot(myAnswersRef): for each added answer, `await
\* pc.setRemoteDescription` when the sender's PeerLink awaits an answer,
\* and `await deleteDoc` at once otherwise.
DeliverAnswers(c, s) ==
    LET new == Unseen(c, s, "answer")
        take == {d \in new : AnswerAccepts(c, pmap[c][d.from])}
    IN  /\ subs[c][s] = "active"
        /\ new # {}
        /\ tasks' = tasks \cup
                    {Task("answer", c, s, pmap[c][d.from], "setRemote", d, <<>>, 0) : d \in take}
        /\ mail' = mail \ (new \ take)
        /\ seenDocs' = SeenAfter([seenDocs EXCEPT ![c][s] = @ \cup new], mail')
        /\ UNCHANGED <<roster, pcs, pmap, sessVars, seenRoster, participants,
                       mediaVars, nfail, uiVars>>

\* setRemoteDescription(answer) settles, and has fired ontrack when the
\* answer was applied.  The transport applies an answer in
\* have-local-offer only; in any other state the call rejects (or, closed
\* in flight, never settles) and the transport is as it was.  After the try
\* block, deleteDoc of the answer.
AnswerRemoteSet(t) ==
    LET p == pcs[t.c][t.k] IN
    /\ t \in tasks /\ t.kind = "answer" /\ t.step = "setRemote"
    /\ tasks' = tasks \ {t}
    /\ IF p.sig = "have-local-offer"
       THEN /\ pcs' = [pcs EXCEPT ![t.c][t.k].sig = "stable",
                                  ![t.c][t.k].remote = t.doc.pc,
                                  ![t.c][t.k].nAns = @ + 1]
            /\ mail' = mail \ {t.doc}
            /\ OnTrack(t.c, p.target, t.doc.pc)
       ELSE /\ UNCHANGED <<pcs, analysers, sinkVars>>
            /\ \E settles \in BOOLEAN :
                 mail' = IF settles \/ ~Closed(p) THEN mail \ {t.doc} ELSE mail
    /\ seenDocs' = SeenAfter(seenDocs, mail')
    /\ UNCHANGED <<roster, pmap, sessVars, seenRoster, participants, mediaVars, nfail,
                   quietVars>>

\* ---------------------------------------------------------- ICE candidates
\* pc.onicecandidate: the transport, its local description set, has
\* gathered a candidate; addDoc writes it to the peer's incoming_ice.
IceEmit(c, k) ==
    /\ k \in 1..Len(pcs[c])
    /\ pcs[c][k].local /\ ~Closed(pcs[c][k])
    /\ pcs[c][k].emitted < MaxCand
    /\ pcs' = [pcs EXCEPT ![c][k].emitted = @ + 1]
    /\ mail' = mail \cup {[kind |-> "ice", pc |-> <<c, k>>, from |-> c,
                           to |-> pcs[c][k].target, n |-> pcs[c][k].emitted + 1,
                           re |-> NoPeer, s |-> pcs[c][k].s]}
    /\ UNCHANGED <<roster, pmap, sessVars, seenVars, tasks, participants,
                   mediaVars, nfail, uiVars>>

\* `pc && pc.remoteDescription`
\* A plausible slip: only the presence of the PeerLink is checked.
IceAcceptsAnyState(c, k) == k # 0

IceAccepts(c, k) == k # 0 /\ pcs[c][k].remote # NoPeer

\* onSnapshot(myIceRef): for each added candidate, `await
\* pc.addIceCandidate` when the sender's PeerLink has a remote description,
\* and `await deleteDoc` at once otherwise.
DeliverIce(c, s) ==
    LET new == Unseen(c, s, "ice")
        take == {d \in new : IceAccepts(c, pmap[c][d.from])}
    IN  /\ subs[c][s] = "active"
        /\ new # {}
        /\ tasks' = tasks \cup
                    {Task("ice", c, s, pmap[c][d.from], "addIce", d, <<>>, 0) : d \in take}
        /\ mail' = mail \ (new \ take)
        /\ seenDocs' = SeenAfter([seenDocs EXCEPT ![c][s] = @ \cup new], mail')
        /\ UNCHANGED <<roster, pcs, pmap, sessVars, seenRoster, participants,
                       mediaVars, nfail, uiVars>>

\* addIceCandidate settles.  The transport takes a candidate of the session
\* its remote description describes; it rejects one it cannot place, one
\* given before a remote description, and any on a closed transport.  After
\* the try block, deleteDoc of the candidate.
IceAdded(t) ==
    LET p == pcs[t.c][t.k] IN
    /\ t \in tasks /\ t.kind = "ice" /\ t.step = "addIce"
    /\ tasks' = tasks \ {t}
    /\ pcs' = IF ~Closed(p) /\ p.remote # NoPeer /\ p.remote = t.doc.pc
              THEN [pcs EXCEPT ![t.c][t.k].cand = TRUE]
              ELSE pcs
    /\ \E settles \in BOOLEAN :
         mail' = IF settles \/ ~Closed(p) THEN mail \ {t.doc} ELSE mail
    /\ seenDocs' = SeenAfter(seenDocs, mail')
    /\ UNCHANGED <<roster, pmap, sessVars, seenRoster, participants, mediaVars, nfail, uiVars>>

\* ----------------------------------------------------------- connectivity
\* Two transports describe one session: each holds the other's description.
Peered(a, b) ==
    /\ ~Closed(PcOf(a)) /\ ~Closed(PcOf(b))
    /\ PcOf(a).local /\ PcOf(b).local
    /\ PcOf(a).remote = b /\ PcOf(b).remote = a

\* Connectivity checks can succeed once one side of the session knows a
\* candidate of the other (session descriptions carry none: they are
\* created before gathering starts).
Reachable(a) ==
    \E b \in PcIds : Live(b) /\ Peered(a, b) /\ (PcOf(a).cand \/ PcOf(b).cand)

\* pc.onconnectionstatechange, connectionState 'connected': logged.
ConnUp(c, k) ==
    /\ k \in 1..Len(pcs[c])
    /\ pcs[c][k].conn \in {"new", "disconnected", "failed"}
    /\ Reachable(<<c, k>>)
    /\ pcs' = [pcs EXCEPT ![c][k].conn = "connected"]
    /\ UNCHANGED <<roster, mail, pmap, sessVars, seenVars, tasks, participants,
                   mediaVars, nfail, uiVars>>

\* setTimeout(..., 3000): the grace period, in seconds.
GraceSeconds == 3

\* The branches of pc.onconnectionstatechange: only 'failed' sets the timer.
\* A plausible slip: 'disconnected' sets it too.
StartsTimerOnLoss(state) == state \in {"failed", "disconnected"}

StartsTimer(state) == state = "failed"

\* The age a new timer starts with: a specification that does not observe
\* the clock takes the delay as over, the timer may fire at any moment.
NewTimer(c, k) ==
    Task("timer", c, pcs[c][k].s, k, "wait", NoDoc, <<pcs[c][k].fails + 1>>,
         IF Observes("clock") THEN 0 ELSE GraceSeconds)

\* The failures the network causes: a specification that observes
\* repeated failures lets a transport fail, recover and fail again.
FailLimit == IF Observes("flaps") THEN MaxFlaps ELSE MaxFail

\* pc.onconnectionstatechange after the transport lost connectivity.
ConnLost(c, k, state) ==
    /\ nfail < FailLimit
    /\ nfail' = nfail + 1
    /\ pcs' = [pcs EXCEPT ![c][k].conn = state,
                          ![c][k].fails = IF state = "failed" THEN @ + 1 ELSE @]
    /\ tasks' = IF StartsTimer(state) THEN tasks \cup {NewTimer(c, k)} ELSE tasks
    /\ UNCHANGED <<roster, mail, pmap, sessVars, seenVars, participants, mediaVars,
                   uiVars>>

\* pc.onconnectionstatechange, connectionState 'disconnected': logged, no
\* timer.
ConnDown(c, k) ==
    /\ k \in 1..Len(pcs[c])
    /\ pcs[c][k].conn = "connected"
    /\ ConnLost(c, k, "disconnected")

\* pc.onconnectionstatechange, connectionState 'failed': setTimeout(...,
\* 3000).
ConnFail(c, k) ==
    /\ k \in 1..Len(pcs[c])
    /\ pcs[c][k].local /\ pcs[c][k].remote # NoPeer
    /\ pcs[c][k].conn \in {"new", "connected", "disconnected"}
    /\ ConnLost(c, k, "failed")

\* A second passes: every pending timer is a second older.
Tick ==
    /\ \E t \in tasks : t.kind = "timer" /\ t.i < GraceSeconds
    /\ tasks' = {IF t.kind = "timer" /\ t.i < GraceSeconds THEN [t EXCEPT !.i = @ + 1]
                 ELSE t : t \in tasks}
    /\ UNCHANGED <<roster, mail, pcs, pmap, sessVars, seenVars, participants,
                   mediaVars, nfail, uiVars>>

\* The timer's delay is over.
\* A plausible slip: the callback runs at once.
TimerDueAtOnce(t) == TRUE

TimerDue(t) == t.i >= GraceSeconds

\* `if (pc.connectionState === 'failed')` of the timer's callback.
\* A plausible slip: the callback closes without looking.
StillFailedUnchecked(p) == TRUE

StillFailed(p) == p.conn = "failed"

\* The grace timer fires: if the transport is still failed, pc.close() and
\* `delete peerConnections.current[targetUserId]`.
TimerFire(t) ==
    LET p == pcs[t.c][t.k] IN
    /\ t \in tasks /\ t.kind = "timer"
    /\ TimerDue(t)
    /\ tasks' = tasks \ {t}
    /\ IF StillFailed(p)
       THEN /\ pcs' = [pcs EXCEPT ![t.c][t.k] = ClosePc(@)]
            /\ pmap' = [pmap EXCEPT ![t.c][p.target] = 0]
       ELSE UNCHANGED <<pcs, pmap>>
    /\ UNCHANGED <<roster, mail, sessVars, seenVars, participants, mediaVars, nfail, uiVars>>

\* ------------------------------------------------------------ the monitor
\* isAudioSpeaking: the mean of the byte frequency data is above 10.
SpeakThreshold == 10

RECURSIVE Sum(_)
Sum(buf) == IF buf = <<>> THEN 0 ELSE Head(buf) + Sum(Tail(buf))

IsAudioSpeaking(buf) == Sum(buf) > SpeakThreshold * Len(buf)

\* The largest r in lo..hi with r * r <= n.
RECURSIVE ISqrtIn(_, _, _)
ISqrtIn(n, lo, hi) ==
    IF lo = hi THEN lo
    ELSE LET mid == (lo + hi + 1) \div 2
         IN  IF mid * mid <= n THEN ISqrtIn(n, mid, hi) ELSE ISqrtIn(n, lo, mid - 1)

\* The sum over the buffer of (sample - 128)^2.
RECURSIVE SumSquares(_)
SumSquares(buf) ==
    IF buf = <<>> THEN 0
    ELSE (Head(buf) - MidByte) * (Head(buf) - MidByte) + SumSquares(Tail(buf))

LevelGain == 300
LevelMax == 100

\* Math.min(100, x)
\* A plausible slip: the level is not capped.
ClampNone(x) == x

Clamp(x) == IF x > LevelMax THEN LevelMax ELSE x

\* getAudioLevel: min(100, 300 * sqrt(sum of ((sample - 128) / 128)^2 /
\* length)), kept to its integer part: the integer root of
\* 300^2 * SumSquares / (128^2 * length), numerator and denominator
\* divided by 16.
GetAudioLevel(buf) ==
    Clamp(ISqrtIn((((LevelGain * LevelGain) \div 16) * SumSquares(buf))
                     \div (((MidByte * MidByte) \div 16) * Len(buf)),
                  0, LevelGain))

Max(S) == CHOOSE x \in S : \A y \in S : y <= x

\* `prev.size === currentlySpeaking.size && [...prev].every(value =>
\* currentlySpeaking.has(value))`
\* A plausible slip: the sets are never found the same.
IsSameNever(prev, cur) == FALSE

IsSame(prev, cur) == Cardinality(prev) = Cardinality(cur) /\ \A v \in prev : v \in cur

\* What one run of detectSpeaking finds: the ids whose analyser is
\* speaking, and the level of the analyser registered under the own id, 0
\* without one.
CurrentlySpeaking(c) == {u \in analysers[c] : IsAudioSpeaking(freqData[c][u])}
MaxLevel(c) == Max({0} \cup {GetAudioLevel(timeData[c][u]) : u \in analysers[c] \cap {c}})

\* setVoiceLevel(maxLevel) and setSpeakingPeers(prev => isSame ? prev :
\* currentlySpeaking) of detectSpeaking; a new Set is an object that the
\* one before it is not.
Sample(c) ==
    /\ voiceLevel' = [voiceLevel EXCEPT ![c] = MaxLevel(c)]
    /\ speakingPeers' = [speakingPeers EXCEPT ![c] =
           IF IsSame(@.ids, CurrentlySpeaking(c)) THEN @
           ELSE [ref |-> 1 - @.ref, ids |-> CurrentlySpeaking(c)]]

\* A requested animation frame runs detectSpeaking, which requests the
\* next one and keeps its id in animationFrameRef.
DetectSpeaking(c) ==
    /\ frames[c] > 0
    /\ Sample(c)
    /\ frameRef' = [frameRef EXCEPT ![c] = TRUE]
    /\ UNCHANGED <<roster, mail, pcs, pmap, sessVars, seenVars, tasks, participants,
                   mediaVars, nfail, obs, isMuted, disabledTracks, rosterMuted,
                   graphVars, sinkVars,
                   loopDeps, frames, analysers, freqData, timeData>>

\* The detection effect, whose dependency is the localStream state (every
\* value localStreamRef.current is given is passed to setLocalStream as
\* well): after a render with a new value, the cleanup of the run before
\* cancels the frame animationFrameRef names, and with a stream
\* detectSpeaking is called.
LoopEffect(c) ==
    LET left == IF frameRef[c] THEN frames[c] - 1 ELSE frames[c] IN
    /\ loopDeps[c] # localStreamRef[c]
    /\ loopDeps' = [loopDeps EXCEPT ![c] = localStreamRef[c]]
    /\ IF localStreamRef[c][2] # "none"
       THEN /\ Sample(c)
            /\ frames' = [frames EXCEPT ![c] = left + 1]
            /\ frameRef' = [frameRef EXCEPT ![c] = TRUE]
       ELSE /\ frames' = [frames EXCEPT ![c] = left]
            /\ frameRef' = [frameRef EXCEPT ![c] = FALSE]
            /\ UNCHANGED <<voiceLevel, speakingPeers>>
    /\ UNCHANGED <<roster, mail, pcs, pmap, sessVars, seenVars, tasks, participants,
                   mediaVars, nfail, obs, isMuted, disabledTracks, rosterMuted,
                   graphVars, sinkVars,
                   analysers, freqData, timeData>>

\* The byte a sample of a full-scale negative peak is given, and a buffer
\* of them.
Loud == [i \in 1..BufLen |-> 0]

\* The analyser registered under u reports other data from now on.
FreqInput(c, u, buf) ==
    /\ u \in analysers[c]
    /\ freqData' = [freqData EXCEPT ![c][u] = buf]
    /\ UNCHANGED <<roster, mail, pcs, pmap, sessVars, seenVars, tasks, participants,
                   mediaVars, nfail, obs, isMuted, disabledTracks, rosterMuted,
                   graphVars, sinkVars,
                   loopVars, analysers, timeData, speakingPeers, voiceLevel>>

TimeInput(c, u, buf) ==
    /\ u \in analysers[c]
    /\ timeData' = [timeData EXCEPT ![c][u] = buf]
    /\ UNCHANGED <<roster, mail, pcs, pmap, sessVars, seenVars, tasks, participants,
                   mediaVars, nfail, obs, isMuted, disabledTracks, rosterMuted,
                   graphVars, sinkVars,
                   loopVars, analysers, freqData, speakingPeers, voiceLevel>>

\* ------------------------------------------------------------ specification
\* join(), the roster, offer and answer handlers, and the cleanup.
NextCore ==
    \/ \E c \in Clients : Mount(c)
    \/ \E c \in Clients, s \in Sessions : MicGranted(c, s)
    \/ \E c \in Clients, s \in Sessions : StreamReady(c, s)
    \/ \E c \in Clients, s \in Sessions : Subscribe(c, s)
    \/ \E c \in Clients : Teardown(c)
    \/ \E c \in Clients, s \in Sessions : DeliverRoster(c, s)
    \/ \E t \in tasks : RosterOfferCreated(t)
    \/ \E t \in tasks : RosterLocalSet(t)
    \/ \E t \in tasks : RosterOfferSent(t)
    \/ \E c \in Clients, s \in Sessions : DeliverOffers(c, s)
    \/ \E t \in tasks : OfferRemoteSet(t)
    \/ \E t \in tasks : OfferAnswerCreated(t)
    \/ \E t \in tasks : OfferLocalSet(t)
    \/ \E t \in tasks : OfferAnswerSent(t)
    \/ \E c \in Clients, s \in Sessions : DeliverAnswers(c, s)
    \/ \E t \in tasks : AnswerRemoteSet(t)

\* One visit of each participant to the room, with a third participant's
\* record in the roster or not, a denied microphone, and connectivity
\* failures with their grace timers.
Next ==
    \/ NextCore
    \/ \E c \in Clients, s \in Sessions : MicDenied(c, s)
    \/ \E c \in Clients, k \in 1..MaxPc : ConnFail(c, k)
    \/ \E t \in tasks : TimerFire(t)

Spec == Init /\ [][Next]_vars

\* Participants that leave the room and enter it again.
InitRejoin ==
    /\ obs = {}
    /\ roster = {}
    /\ InitHooks

NextRejoin ==
    \/ NextCore
    \/ \E c \in Clients : Remount(c)

SpecRejoin == InitRejoin /\ [][NextRejoin]_vars

\* Participants that leave and come back, over a network that fails.
NextChurn ==
    \/ NextRejoin
    \/ \E c \in Clients, k \in 1..MaxPc : ConnFail(c, k)
    \/ \E t \in tasks : TimerFire(t)

SpecChurn == InitRejoin /\ [][NextChurn]_vars

\* Two participants enter an empty room, the second once the first is in,
\* and stay: nobody leaves, the microphones are granted, the mailboxes lose
\* nothing, the network does not fail, and every callback that can run does.
InitLive ==
    /\ obs = {"list"}
    /\ roster = {}
    /\ InitHooks

MountAfter(c, first) == join[first][1] = "done" /\ Mount(c)

NextLive ==
    \/ Mount(1)
    \/ MountAfter(2, 1)
    \/ \E c \in Clients, s \in Sessions : MicGranted(c, s)
    \/ \E c \in Clients, s \in Sessions : StreamReady(c, s)
    \/ \E c \in Clients, s \in Sessions : Subscribe(c, s)
    \/ \E c \in Clients, s \in Sessions : DeliverRoster(c, s)
    \/ \E t \in tasks : RosterOfferCreated(t)
    \/ \E t \in tasks : RosterLocalSet(t)
    \/ \E t \in tasks : RosterOfferSent(t)
    \/ \E c \in Clients, s \in Sessions : DeliverOffers(c, s)
    \/ \E t \in tasks : OfferRemoteSet(t)
    \/ \E t \in tasks : OfferAnswerCreated(t)
    \/ \E t \in tasks : OfferLocalSet(t)
    \/ \E t \in tasks : OfferAnswerSent(t)
    \/ \E c \in Clients, s \in Sessions : DeliverAnswers(c, s)
    \/ \E t \in tasks : AnswerRemoteSet(t)
    \/ \E c \in Clients, k \in 1..MaxPc : IceEmit(c, k)
    \/ \E c \in Clients, s \in Sessions : DeliverIce(c, s)
    \/ \E t \in tasks : IceAdded(t)
    \/ \E c \in Clients, k \in 1..MaxPc : ConnUp(c, k)

SpecLive == InitLive /\ [][NextLive]_vars /\ WF_vars(NextLive)

\* The handshake with its candidates, and participants that leave: one run
\* of the effect per client.
NextIce ==
    \/ NextCore
    \/ \E c \in Clients, k \in 1..MaxPc : IceEmit(c, k)
    \/ \E c \in Clients, s \in Sessions : DeliverIce(c, s)
    \/ \E t \in tasks : IceAdded(t)

SpecIce == InitRejoin /\ [][NextIce]_vars

\* Two participants enter an empty room one after the other and may leave;
\* every callback that can run does, and nobody is bound to leave.
NextLeave ==
    \/ NextLive
    \/ \E c \in Clients : Teardown(c)

SpecLeave == InitLive /\ [][NextLeave]_vars /\ WF_vars(NextLive)

\* Two participants enter an empty room one after the other and may leave,
\* over a network that loses connectivity, with the clock of the grace
\* timer.  Callbacks run and time passes; nobody is bound to leave and the
\* network is not bound to fail.
InitFlap ==
    /\ obs = {"clock"}
    /\ roster = {}
    /\ InitHooks

StepsFlap ==
    \/ NextLive
    \/ Tick
    \/ \E t \in tasks : TimerFire(t)

NextFlap ==
    \/ StepsFlap
    \/ \E c \in Clients : Teardown(c)
    \/ \E c \in Clients, k \in 1..MaxPc : ConnDown(c, k)
    \/ \E c \in Clients, k \in 1..MaxPc : ConnFail(c, k)

SpecFlap == InitFlap /\ [][NextFlap]_vars /\ WF_vars(StepsFlap)

\* Two participants enter an empty room one after the other and stay, over
\* a network on which a transport may fail, recover and fail again, with
\* the clock of the grace timers.
InitGrace ==
    /\ obs = {"clock", "flaps"}
    /\ roster = {}
    /\ InitHooks

NextGrace ==
    \/ StepsFlap
    \/ \E c \in Clients, k \in 1..MaxPc : ConnFail(c, k)

SpecGrace == InitGrace /\ [][NextGrace]_vars

\* One visit of each participant over a network that fails, with the audio
\* elements, source nodes and analysers that remote tracks bring.
InitSinkSpec ==
    /\ obs = {"media", "sinks"}
    /\ roster = {}
    /\ InitHooks

SpecSinks == InitSinkSpec /\ [][Next]_vars

\* The handshake and participants that leave, whichever stream
\* initLocalStream returns.
InitTracks ==
    /\ obs = {"stream", "media"}
    /\ roster = {}
    /\ InitHooks

SpecTracks == InitTracks /\ [][NextCore]_vars

\* One visit of each participant, in which an offer's creation, its
\* setting as local description or its mailbox write may fail.
NextFault ==
    \/ NextCore
    \/ \E t \in tasks : RosterOfferFails(t)
    \/ \E t \in tasks : RosterWriteFails(t)

SpecFault == Init /\ [][NextFault]_vars

\* One visit of each participant with its candidates, the mute button and
\* the page's unload.
InitOwn ==
    /\ obs = {"media"}
    /\ roster = {}
    /\ InitHooks

NextOwn ==
    \/ NextIce
    \/ \E c \in Clients : ToggleMute(c)
    \/ \E c \in Clients : BeforeUnload(c)

SpecOwn == InitOwn /\ [][NextOwn]_vars

\* The runs of the join effect and the detection loop, with a local signal
\* that is silent or loud; the listeners' callbacks are left out.
InitDetect ==
    /\ obs = {"media"}
    /\ roster = {}
    /\ InitHooks

NextDetect ==
    \/ \E c \in Clients : Mount(c)
    \/ \E c \in Clients : Remount(c)
    \/ \E c \in Clients, s \in Sessions : MicGranted(c, s)
    \/ \E c \in Clients, s \in Sessions : MicDenied(c, s)
    \/ \E c \in Clients, s \in Sessions : StreamReady(c, s)
    \/ \E c \in Clients, s \in Sessions : Subscribe(c, s)
    \/ \E c \in Clients : Teardown(c)
    \/ \E c \in Clients : LoopEffect(c)
    \/ \E c \in Clients : DetectSpeaking(c)
    \/ \E c \in Clients, buf \in {Silence, Loud} : TimeInput(c, c, buf)

SpecDetect == InitDetect /\ [][NextDetect]_vars

\* u1 has joined an empty room on the processed stream and its detection
\* loop runs; u2 has not entered.
Joined ==
    /\ obs = {"media"}
    /\ roster = {1}
    /\ mail = {}
    /\ pcs = [c \in Clients |-> <<>>]
    /\ pmap = [c \in Clients |-> [i \in Ids |-> 0]]
    /\ sess = [c \in Clients |-> IF c = 1 THEN 1 ELSE 0]
    /\ mounted = [c \in Clients |-> c = 1]
    /\ join = [c \in Clients |-> [s \in Sessions |->
                 IF c = 1 /\ s = 1 THEN "done" ELSE "none"]]
    /\ subs = [c \in Clients |-> [s \in Sessions |->
                 IF c = 1 /\ s = 1 THEN "active" ELSE "none"]]
    /\ seenRoster = [c \in Clients |-> [s \in Sessions |-> {0}]]
    /\ seenDocs = [c \in Clients |-> [s \in Sessions |-> {}]]
    /\ tasks = {}
    /\ participants = [c \in Clients |-> {}]
    /\ rawTrack = [c \in Clients |-> [s \in Sessions |->
                     IF c = 1 /\ s = 1 THEN "live" ELSE "none"]]
    /\ procTrack = [c \in Clients |-> [s \in Sessions |->
                      IF c = 1 /\ s = 1 THEN "live" ELSE "none"]]
    /\ localStreamRef = [c \in Clients |-> IF c = 1 THEN <<1, "proc">> ELSE <<0, "none">>]
    /\ torn = [c \in Clients |-> [s \in Sessions |-> FALSE]]
    /\ published = [c \in Clients |-> [s \in Sessions |-> c = 1 /\ s = 1]]
    /\ alerted = [c \in Clients |-> [s \in Sessions |-> FALSE]]
    /\ nfail = 0
    /\ joinStream = [c \in Clients |-> [s \in Sessions |->
                       IF c = 1 /\ s = 1 THEN "final" ELSE "none"]]
    /\ audioContextRef = [c \in Clients |-> IF c = 1 THEN "open" ELSE "none"]
    /\ InitMute /\ InitGraph /\ InitSinks
    /\ audioOptions = [c \in Clients |-> RoomOptions]
    /\ loopDeps = localStreamRef
    /\ frames = [c \in Clients |-> IF c = 1 THEN 1 ELSE 0]
    /\ frameRef = [c \in Clients |-> c = 1]
    /\ speakingPeers = [c \in Clients |-> [ref |-> 0, ids |-> {}]]
    /\ voiceLevel = [c \in Clients |-> 0]

\* The bytes a frequency bin is given here: around the threshold, and the
\* ends of the range.
FreqBytes == {0, SpeakThreshold, SpeakThreshold + 1, MaxByte}

\* detectSpeaking over whatever analysers are registered (the own one, and
\* those of peers), whose frequency data change between the ticks.
InitSpeak ==
    /\ Joined
    /\ \E A \in SUBSET Ids : analysers = [c \in Clients |-> IF c = 1 THEN A ELSE {}]
    /\ freqData = [c \in Clients |-> [i \in Ids |-> NoSound]]
    /\ timeData = [c \in Clients |-> [i \in Ids |-> Silence]]

NextSpeak ==
    \/ \E c \in Clients : DetectSpeaking(c)
    \/ \E c \in Clients, u \in Ids, buf \in [1..FreqBins -> FreqBytes] : FreqInput(c, u, buf)

SpecSpeak == InitSpeak /\ [][NextSpeak]_vars

\* detectSpeaking on every time-domain buffer of the own analyser, with
\* and without the own analyser registered, with and without a loud peer's.
InitLevel ==
    /\ Joined
    /\ \E A \in SUBSET Clients : analysers = [c \in Clients |-> IF c = 1 THEN A ELSE {}]
    /\ freqData = [c \in Clients |-> [i \in Ids |-> NoSound]]
    /\ \E buf \in [1..BufLen -> 0..MaxByte] :
          timeData = [c \in Clients |-> [i \in Ids |->
                        IF c = 1 /\ i = 1 THEN buf
                        ELSE IF c = 1 /\ i = 2 THEN Loud ELSE Silence]]

NextLevel == \E c \in Clients : DetectSpeaking(c)

SpecLevel == InitLevel /\ [][NextLevel]_vars

\* The runs of the join effect under every combination of the options, with
\* a worklet that loads or fails; the options stay as they are and the
\* listeners' callbacks are left out.
InitBuild ==
    /\ obs = {"media", "graph"}
    /\ roster = {}
    /\ InitRefs
    /\ audioOptions \in [Clients -> Options]

NextBuild ==
    \/ \E c \in Clients : Mount(c)
    \/ \E c \in Clients, s \in Sessions : MicGranted(c, s)
    \/ \E c \in Clients, s \in Sessions : MicDenied(c, s)
    \/ \E c \in Clients, s \in Sessions : StreamReady(c, s)
    \/ \E c \in Clients, s \in Sessions : WasmFetched(c, s)
    \/ \E c \in Clients, s \in Sessions : Subscribe(c, s)
    \/ \E c \in Clients : Teardown(c)

SpecBuild == InitBuild /\ [][NextBuild]_vars

\* applyPreset of the settings panel: another quality preset is chosen.
SetQuality(c, q) == SetOptions(c, [audioOptions[c] EXCEPT !.audioQuality = q])

\* The runs of the join effect with RNNoise processing switched on, under
\* a quality preset that the user changes at any moment.
InitPreset ==
    /\ obs = {"media", "graph"}
    /\ roster = {}
    /\ InitRefs
    /\ audioOptions \in [Clients -> {o \in Options : o.useRNNoise /\ ~o.highPassFilter}]

NextPreset ==
    \/ NextBuild
    \/ \E c \in Clients, q \in Qualities : SetQuality(c, q)

SpecPreset == InitPreset /\ [][NextPreset]_vars

\* The runs of the join effect and the mute button, pressed at any moment
\* the page is shown; the listeners' callbacks are left out.
NextMute ==
    \/ \E c \in Clients : Mount(c)
    \/ \E c \in Clients : Remount(c)
    \/ \E c \in Clients, s \in Sessions : MicGranted(c, s)
    \/ \E c \in Clients, s \in Sessions : MicDenied(c, s)
    \/ \E c \in Clients, s \in Sessions : StreamReady(c, s)
    \/ \E c \in Clients, s \in Sessions : Subscribe(c, s)
    \/ \E c \in Clients : Teardown(c)
    \/ \E c \in Clients : ToggleMute(c)

SpecMute == InitOwn /\ [][NextMute]_vars

\* ------------------------------------------------------------------ claims
OpenPcs(c) == {k \in 1..Len(pcs[c]) : ~Closed(pcs[c][k])}
SessionPcs(c, s) == {k \in 1..Len(pcs[c]) : pcs[c][k].s = s}

\* C1: of two distinct participants exactly one is the initiator, the one
\* whose id is the smaller string: every offer in a mailbox goes from the
\* smaller id to the larger, and every PeerLink made by a roster handler,
\* and every roster handler suspended in its offer, belongs to the smaller
\* id of its pair.
C1_SmallerIdInitiates ==
    /\ \A a, b \in Ids : a # b => (LexLess(Uid(a), Uid(b)) # LexLess(Uid(b), Uid(a)))
    /\ \A d \in mail : d.kind = "offer" => LexLess(Uid(d.from), Uid(d.to))
    /\ \A c \in Clients : \A k \in 1..Len(pcs[c]) :
         pcs[c][k].origin = "roster" => LexLess(Uid(c), Uid(pcs[c][k].target))
    /\ \A t \in tasks :
         t.kind = "roster" => LexLess(Uid(t.c), Uid(pcs[t.c][t.k].target))

\* The larger id has seen the smaller one in the roster and has made no
\* PeerLink, while the smaller one's offer lies in its mailbox.
C1_Witness ==
    /\ 1 \in seenRoster[2][1]
    /\ pcs[2] = <<>>
    /\ \E d \in mail : d.kind = "offer" /\ d.from = 1 /\ d.to = 2

\* C2: a client has at most one open transport per remote id, and every
\* open transport is the peer map's entry for its id.
C2_OpenTransportIsMapEntry ==
    \A c \in Clients : \A k \in 1..Len(pcs[c]) :
        ~Closed(pcs[c][k]) => pmap[c][pcs[c][k].target] = k

\* A client holds a closed transport and an open one to the same peer, the
\* open one made after the grace timer took the first one away.
C2_Witness ==
    \E c \in Clients :
        /\ Len(pcs[c]) = 2
        /\ pcs[c][1].target = pcs[c][2].target
        /\ Closed(pcs[c][1]) /\ ~Closed(pcs[c][2])
        /\ ~torn[c][pcs[c][1].s]

\* C3: two participants join one after the other, nothing is lost and
\* every enabled step is taken: when nothing is left to do, each holds an
\* open connected transport to the other and each list has both.
C3_BothConnectedWhenSettled ==
    (~ENABLED NextLive) =>
        /\ \A c \in Clients :
             \E k \in OpenPcs(c) : pcs[c][k].target # c /\ pcs[c][k].conn = "connected"
        /\ \A c \in Clients : participants[c] = Clients

\* C4: once the cleanup of a run has happened, no transport made by that
\* run is open.
C4_NoOpenTransportAfterTeardown ==
    \A c \in Clients : \A k \in 1..Len(pcs[c]) :
        torn[c][pcs[c][k].s] => Closed(pcs[c][k])

\* C5: from the cleanup to the next join, the own roster record is absent.
C5_RecordAbsentAfterTeardown ==
    \A c \in Clients : (sess[c] > 0 /\ ~mounted[c]) => c \notin roster

\* C6: a run that had joined (its listeners were there to be cancelled)
\* and was cleaned up has neither its microphone track nor its processed
\* track live.
C6_TracksStoppedAfterTeardown ==
    \A c \in Clients, s \in Sessions :
        subs[c][s] = "cancelled" =>
            rawTrack[c][s] # "live" /\ procTrack[c][s] # "live"

\* C7: after the cleanup of a run none of its listeners is subscribed.
C7_UnsubscribedAfterTeardown ==
    \A c \in Clients, s \in Sessions : torn[c][s] => subs[c][s] # "active"

\* C8: a run that has been cleaned up writes no further offer or answer
\* and makes no further PeerLink.
C8_SilentAfterTeardown ==
    [][\A c \in Clients, s \in Sessions :
         torn[c][s] =>
            /\ \A d \in mail' \ mail :
                 ~(d.kind \in {"offer", "answer"} /\ d.from = c /\ d.s = s)
            /\ \A k \in (1..Len(pcs'[c])) \ (1..Len(pcs[c])) : pcs'[c][k].s # s]_vars

\* C9: a run whose microphone request failed has returned from join(): it
\* has not written the roster record, has no listener, no PeerLink and no
\* suspended handler.
C9_MicFailureStopsJoin ==
    \A c \in Clients, s \in Sessions :
        alerted[c][s] =>
            /\ join[c][s] = "returned"
            /\ ~published[c][s]
            /\ c \notin roster
            /\ subs[c][s] = "none"
            /\ SessionPcs(c, s) = {}
            /\ \A t \in tasks : ~(t.c = c /\ t.s = s)

\* The microphone was refused while the other participant was in the room,
\* joined and listening.
C9_Witness ==
    \E c, o \in Clients :
        /\ c # o
        /\ alerted[c][1]
        /\ o \in roster /\ subs[o][1] = "active" /\ seenRoster[o][1] = roster

AnswerTasks == {t \in tasks : t.kind = "answer"}

\* C10: an answer is handed to the transport only if, at its delivery, the
\* sender's PeerLink is in the map and in have-local-offer; an answer
\* dropped at its delivery leaves every transport as it was; a transport
\* takes an answer in have-local-offer only, and at most one in all.
C10_StaleAnswerDiscarded ==
    /\ [](\A c \in Clients : \A k \in 1..Len(pcs[c]) : pcs[c][k].nAns <= 1)
    /\ [][/\ \A t \in tasks' \ tasks :
               t.kind = "answer" =>
                   /\ pmap[t.c][t.doc.from] = t.k /\ t.k # 0
                   /\ pcs[t.c][t.k].sig = "have-local-offer"
          /\ \A d \in mail \ mail' :
               (d.kind = "answer" /\ \A t \in AnswerTasks : t.doc # d) => pcs' = pcs
          /\ \A c \in Clients : \A k \in 1..Len(pcs[c]) :
               pcs'[c][k].nAns # pcs[c][k].nAns =>
                   /\ pcs[c][k].sig = "have-local-offer"
                   /\ pcs'[c][k].sig = "stable"]_vars

\* Two answers of one sender came in one snapshot: one has been applied,
\* the other is still on its way to the transport.
C10_Witness ==
    \E t \in AnswerTasks :
        /\ pcs[t.c][t.k].nAns = 1
        /\ pcs[t.c][t.k].sig = "stable"
        /\ pcs[t.c][t.k].remote # t.doc.pc
        /\ pcs[t.c][t.k].remote[1] = t.doc.from

IceTasks == {t \in tasks : t.kind = "ice"}

\* C11: a candidate is handed to the transport only if, at its delivery,
\* the sender's PeerLink is in the map and has a remote description; a
\* transport takes a candidate only while it has a remote description; a
\* candidate dropped at its delivery makes no PeerLink and leaves every
\* transport and the peer map as they were.
C11_CandidateGated ==
    [][/\ \A t \in tasks' \ tasks :
            t.kind = "ice" =>
                /\ t.k # 0 /\ pmap[t.c][t.doc.from] = t.k
                /\ pcs[t.c][t.k].remote # NoPeer
       /\ \A c \in Clients : \A k \in 1..Len(pcs[c]) :
            (pcs'[c][k].cand /\ ~pcs[c][k].cand) => pcs[c][k].remote # NoPeer
       /\ \A d \in mail \ mail' :
            (d.kind = "ice" /\ \A t \in IceTasks : t.doc # d) =>
                pcs' = pcs /\ pmap' = pmap]_vars

\* A candidate was written to a listening client that never had a PeerLink
\* for its sender, and it is gone from the mailbox.
C11_Witness ==
    \E c \in Clients : \E k \in 1..Len(pcs[c]) :
        LET o == pcs[c][k].target IN
        /\ o \in Clients
        /\ pcs[c][k].emitted = 1
        /\ \A d \in mail : ~(d.kind = "ice" /\ d.pc = <<c, k>>)
        /\ \A t \in IceTasks : t.doc.pc # <<c, k>>
        /\ subs[o][1] = "active" /\ pcs[o] = <<>>

\* The runs of the recipient's effect that were handed document d: those
\* whose listener has it as seen, and those with a handler suspended on it.
HandedTo(d) ==
    {s \in Sessions : \/ d \in seenDocs[d.to][s]
                      \/ \E t \in tasks : t.c = d.to /\ t.s = s /\ t.doc = d}

\* C12: a document in a mailbox is processed by its recipient at most once,
\* whatever runs of the effect the recipient goes through: no two runs are
\* handed the same document.
C12_ProcessedAtMostOnce ==
    \A d \in mail : d.to \in Clients => Cardinality(HandedTo(d)) <= 1

DocKinds == {"offer", "answer", "ice"}
\* The document of one kind written by transport id (its n-th, for
\* candidates) lies in a mailbox; a listener of its recipient has it as seen.
InMailbox(kind, id, n) ==
    \E d \in mail : d.kind = kind /\ d.pc = id /\ d.n = n
ObservedAdded(kind, id, n) ==
    \E d \in mail : /\ d.kind = kind /\ d.pc = id /\ d.n = n
                    /\ d.to \in Clients
                    /\ \E s \in Sessions : d \in seenDocs[d.to][s]

\* C13: a document that a listener of its recipient was handed as added is
\* eventually gone from the mailbox.
C13_ObservedEventuallyDeleted ==
    \A kind \in DocKinds : \A id \in PcIds : \A n \in 0..MaxCand :
        ObservedAdded(kind, id, n) ~> ~InMailbox(kind, id, n)

Timers == {t \in tasks : t.kind = "timer"}
\* The timer t runs its callback in this step.
Fires(t) ==
    /\ t \in Timers
    /\ \A u \in tasks' : ~(u.kind = "timer" /\ u.c = t.c /\ u.k = t.k /\ u.docs = t.docs)
\* The cleanup of c's effect runs in this step.
TearsDown(c) == mounted[c] /\ ~mounted'[c]
\* The PeerLink k of c is closed, or taken out of the peer map, in this step.
Dropped(c, k) ==
    /\ ~Closed(pcs[c][k])
    /\ \/ Closed(pcs'[c][k])
       \/ pmap[c][pcs[c][k].target] = k /\ pmap'[c][pcs[c][k].target] # k

\* C14: a grace timer that fires on a transport that is not failed any more
\* leaves every transport and the peer map as they are, and no PeerLink
\* that is not failed is dropped other than by the cleanup: a PeerLink that
\* recovered within the grace period survives.
C14_RecoveredLinkSurvives ==
    [][/\ \A t \in Timers :
            (Fires(t) /\ pcs[t.c][t.k].conn # "failed") => pcs' = pcs /\ pmap' = pmap
       /\ \A c \in Clients : \A k \in 1..Len(pcs[c]) :
            (Dropped(c, k) /\ pcs[c][k].conn # "failed") => TearsDown(c)]_vars

\* A PeerLink failed, recovered, and its timer has fired: it is connected,
\* open and in the peer map.
C14_Witness ==
    \E c \in Clients : \E k \in 1..Len(pcs[c]) :
        /\ pcs[c][k].fails = 1 /\ pcs[c][k].conn = "connected"
        /\ pmap[c][pcs[c][k].target] = k
        /\ \A t \in Timers : ~(t.c = c /\ t.k = k)

\* C15: a grace timer fires only when its delay is over; when it fires on a
\* transport that is still failed, the transport is closed and its id is out
\* of the peer map; and a failed PeerLink is dropped, other than by the
\* cleanup, only by a timer of its own that fires after its delay.
C15_FailedLinkDroppedByTimer ==
    [][/\ \A t \in Timers :
            Fires(t) =>
                /\ t.i >= GraceSeconds
                /\ pcs[t.c][t.k].conn = "failed" =>
                       /\ Closed(pcs'[t.c][t.k])
                       /\ pmap'[t.c][pcs[t.c][t.k].target] = 0
       /\ \A c \in Clients : \A k \in 1..Len(pcs[c]) :
            (Dropped(c, k) /\ ~TearsDown(c)) =>
                \E t \in Timers : /\ t.c = c /\ t.k = k /\ Fires(t)
                                  /\ t.i >= GraceSeconds]_vars

\* The timer of a PeerLink that stayed failed has fired in a mounted hook:
\* the transport is closed and its peer has no entry in the map.
C15_Witness ==
    \E c \in Clients : \E k \in 1..Len(pcs[c]) :
        /\ mounted[c] /\ ~torn[c][pcs[c][k].s]
        /\ Closed(pcs[c][k])
        /\ pmap[c][pcs[c][k].target] = 0
        /\ Timers = {} /\ nfail = 1

\* The PeerLink k of c, made by c's roster handler, was dropped by its grace
\* timer (c's run is not cleaned up) and its peer is still in the roster.
DroppedByTimer(c, k) ==
    /\ k \in 1..Len(pcs[c])
    /\ pcs[c][k].origin = "roster" /\ Closed(pcs[c][k])
    /\ mounted[c] /\ ~torn[c][pcs[c][k].s]
    /\ c \in roster /\ pcs[c][k].target \in roster
\* a and b each hold an open connected transport to the other.
Linked(a, b) ==
    /\ \E k \in OpenPcs(a) : pcs[a][k].target = b /\ pcs[a][k].conn = "connected"
    /\ \E k \in OpenPcs(b) : pcs[b][k].target = a /\ pcs[b][k].conn = "connected"

\* C16: once the grace timer has dropped a PeerLink on the initiating side
\* while its peer is in the roster, the two are eventually linked again,
\* each with an open connected transport to the other (or one of them has
\* left).
C16_RelinkedAfterDrop ==
    \A c \in Clients : \A k \in 1..MaxPc :
        DroppedByTimer(c, k) ~>
            \/ \E o \in Clients : o # c /\ Linked(c, o)
            \/ ~mounted[c] \/ \E o \in Clients : o # c /\ ~mounted[o]

\* C17: a change of connectivity to 'disconnected' starts no timer and
\* leaves the peer map and the transport open; and a PeerLink that has
\* never been 'failed' is dropped only by the cleanup.
C17_DisconnectedStartsNoTimer ==
    [][\A c \in Clients : \A k \in 1..Len(pcs[c]) :
         /\ (pcs[c][k].conn # "disconnected" /\ pcs'[c][k].conn = "disconnected") =>
                /\ Timers \subseteq {t \in tasks' : t.kind = "timer"}
                /\ {t \in tasks' : t.kind = "timer"} \subseteq Timers
                /\ pmap' = pmap
                /\ ~Closed(pcs'[c][k])
         /\ (Dropped(c, k) /\ pcs[c][k].fails = 0) => TearsDown(c)]_vars

\* A PeerLink that never failed is disconnected in a mounted hook: it is
\* open and in the peer map, and no timer is pending for it.
C17_Witness ==
    \E c \in Clients : \E k \in 1..Len(pcs[c]) :
        /\ pcs[c][k].conn = "disconnected" /\ pcs[c][k].fails = 0
        /\ pmap[c][pcs[c][k].target] = k
        /\ \A t \in Timers : ~(t.c = c /\ t.k = k)
        /\ mounted[c]

\* c's hook is mounted and listening, holds a PeerLink for o, and o has
\* left: its hook is cleaned up and its record is out of the roster.
LinkedToLeaver(c, o) ==
    /\ c # o
    /\ mounted[c] /\ subs[c][sess[c]] = "active"
    /\ pmap[c][o] # 0
    /\ ~mounted[o] /\ o \notin roster

\* C18: when a participant has left, every PeerLink that a listening client
\* holds for it is eventually destroyed: closed and out of the peer map
\* (unless that client leaves too, or the record comes back).
C18_LeaverLinkDestroyed ==
    \A c \in Clients : \A o \in Clients :
        LinkedToLeaver(c, o) ~>
            \/ pmap[c][o] = 0 /\ \A k \in OpenPcs(c) : pcs[c][k].target # o
            \/ ~mounted[c]
            \/ o \in roster

RosterTasks == {t \in tasks : t.kind = "roster"}

\* A listener of c is handed a roster snapshot in this step.
SnapshotHandled(c) ==
    \E s \in Sessions : seenRoster'[c][s] # seenRoster[c][s] /\ subs'[c][s] = "active"

\* C19: a client has at most one open transport per peer and at most one
\* roster handler suspended in the offer of a transport; a roster snapshot
\* handed to a client leaves the map entries it has as they are and makes
\* no transport for a peer that has one; and an offer is written only for a
\* transport that has no local description yet.
C19_RosterSnapshotIdempotent ==
    /\ [](\A c \in Clients :
            /\ \A o \in Ids : Cardinality({k \in OpenPcs(c) : pcs[c][k].target = o}) <= 1
            /\ \A k \in 1..Len(pcs[c]) :
                 Cardinality({t \in RosterTasks : t.c = c /\ t.k = k}) <= 1)
    /\ [][/\ \A c \in Clients : \A o \in Ids :
               (SnapshotHandled(c) /\ pmap[c][o] # 0) =>
                   /\ pmap'[c][o] = pmap[c][o]
                   /\ \A k \in (1..Len(pcs'[c])) \ (1..Len(pcs[c])) : pcs'[c][k].target # o
          /\ \A d \in mail' \ mail :
               d.kind = "offer" => ~pcs[d.pc[1]][d.pc[2]].local]_vars

\* A second roster snapshot was handled while the handler of the first was
\* suspended in the offer for a peer that is in both.
C19_Witness ==
    \E t, u \in RosterTasks :
        /\ t.c = u.c /\ t.k # u.k /\ t.docs # u.docs
        /\ pcs[t.c][t.k].target \in Range(u.docs)
        /\ Len(pcs[t.c]) = 2

\* C20: every transport has exactly one local track attached, an audio
\* track, and had it already when its offer or answer was written.
C20_OneTrackBeforeHandshake ==
    /\ [](\A c \in Clients : \A k \in 1..Len(pcs[c]) :
            Cardinality(pcs[c][k].senders) = 1)
    /\ [][\A d \in mail' \ mail :
            d.kind \in {"offer", "answer"} =>
                /\ Cardinality(pcs[d.pc[1]][d.pc[2]].senders) = 1
                /\ pcs[d.pc[1]][d.pc[2]].senders \subseteq {"proc", "raw"}]_vars

\* An offer and the answer to it have both been written, by transports
\* that carry different streams.
C20_Witness ==
    \E d, a \in mail :
        /\ d.kind = "offer" /\ a.kind = "answer"
        /\ a.re = d.pc
        /\ pcs[d.pc[1]][d.pc[2]].senders # pcs[a.pc[1]][a.pc[2]].senders


\* C21: join() takes its steps in order: the local output track is there
\* before the own record is published, and the record is published before
\* any of the four listeners exists; so a run of the join effect that never
\* published its record has no listener, no PeerLink, no suspended handler
\* and no handshake message in any mailbox.
C21_JoinOrder ==
    \A c \in Clients : \A s \in Sessions :
        /\ published[c][s] => joinStream[c][s] \in {"final", "raw"}
        /\ published[c][s] => rawTrack[c][s] # "none"
        /\ subs[c][s] # "none" => published[c][s]
        /\ SessionPcs(c, s) # {} => published[c][s]
        /\ (\E t \in tasks : t.c = c /\ t.s = s) => published[c][s]
        /\ (\E d \in mail : d.from = c /\ d.s = s) => published[c][s]

\* A run has published its record and not subscribed yet, while the other
\* client, published and subscribed, has a PeerLink and an offer out.
C21_Witness ==
    \E c \in Clients : \E o \in Clients \ {c} :
        /\ sess[c] > 0 /\ sess[o] > 0
        /\ join[c][sess[c]] = "setdoc" /\ published[c][sess[c]]
        /\ subs[c][sess[c]] = "none"
        /\ subs[o][sess[o]] = "active" /\ published[o][sess[o]]
        /\ SessionPcs(o, sess[o]) # {}
        /\ \E d \in mail : d.kind = "offer" /\ d.from = o /\ d.s = sess[o]

\* C22: the cleanup of the join effect raises nothing, whatever the run
\* had set up when it is torn down (no microphone yet, no roster write
\* yet, no listeners yet, no PeerLink, no audio context): every run whose
\* cleanup was called has reached the end of its cleanup.
C22_CleanupCompletes ==
    \A c \in Clients : \A s \in Sessions :
        (s < sess[c] \/ (s = sess[c] /\ ~mounted[c])) => torn[c][s]

\* One client was torn down before the microphone was granted, the other
\* with the microphone but before its roster write: neither has a
\* listener, a PeerLink or an audio context.
C22_Witness ==
    /\ sess[1] = 1 /\ torn[1][1] /\ join[1][1] = "mic"
    /\ localStreamRef[1][2] = "none"
    /\ sess[2] = 1 /\ torn[2][1] /\ join[2][1] = "rnn"
    /\ localStreamRef[2][2] = "raw" /\ ~published[2][1]
    /\ \A c \in Clients : /\ subs[c][1] = "none" /\ pcs[c] = <<>>
                           /\ audioContextRef[c] = "none"

\* C23: a handshake step that fails for one peer during a roster
\* observation does not stop the others: once no roster handler of a
\* mounted, subscribed client is suspended, the client has a PeerLink for
\* every other participant of the last snapshot that it initiates to, and
\* its participants list has been set from a snapshot.
C23_FailureIsolated ==
    \A c \in Clients :
        LET s == sess[c] IN
        (/\ mounted[c] /\ s > 0 /\ subs[c][s] = "active"
         /\ seenRoster[c][s] # {0}
         /\ ~\E t \in tasks : t.kind = "roster" /\ t.c = c)
        => /\ \A o \in seenRoster[c][s] \ {c} :
                  ShouldInitiate(c, o) => pmap[c][o] # 0
           /\ participants[c] # {}

\* A suspended offer handler past its setRemoteDescription works on a
\* transport that holds the offer, and past its setLocalDescription on one
\* that holds the answer as well.
OfferStepsInOrder ==
    \A t \in tasks :
        (t.kind = "offer" /\ ~Closed(pcs[t.c][t.k])) =>
            /\ t.step = "setRemote" => pcs[t.c][t.k].remote = NoPeer
            /\ t.step \in {"createAnswer", "setLocal"} =>
                   /\ pcs[t.c][t.k].remote = t.doc.pc
                   /\ ~pcs[t.c][t.k].local
            /\ t.step = "addDoc" =>
                   /\ pcs[t.c][t.k].remote = t.doc.pc
                   /\ pcs[t.c][t.k].local

\* What a step that writes a handshake message leaves behind.
PublishedInOrder ==
    \A d \in mail' \ mail :
        LET c == d.pc[1]
            k == d.pc[2]
        IN  /\ d.kind = "offer" =>
                   /\ ~pcs[c][k].local /\ pcs'[c][k].local
                   /\ pcs'[c][k].sig = "have-local-offer"
                   /\ d.to = pcs[c][k].target
            /\ d.kind = "answer" =>
                   /\ pcs[c][k].sig = "have-remote-offer"
                   /\ pcs[c][k].remote # NoPeer
                   /\ ~pcs[c][k].local /\ pcs'[c][k].local
                   /\ d.re = pcs[c][k].remote
                   /\ d.to = pcs[c][k].remote[1]
                   /\ \E o \in mail : o.kind = "offer" /\ o.pc = d.re /\ o.from = d.to

\* C24: the handshake takes its steps in order.  The initiator writes the
\* offer to the peer's offer mailbox with the offer set as its local
\* description.  The responder sets the offer as remote description before
\* it creates the answer, sets the answer as local description before it
\* writes it, and writes it to the answer mailbox of the offer's sender and
\* no other.
C24_HandshakeInOrder == []OfferStepsInOrder /\ [][PublishedInOrder]_vars

\* An answer lies in the answer mailbox of the sender of the offer it
\* answers, written by a transport that holds both descriptions.
C24_Witness ==
    \E a \in mail : \E o \in mail :
        /\ a.kind = "answer" /\ o.kind = "offer" /\ a.re = o.pc
        /\ a.to = o.from /\ a.from = o.to
        /\ PcOf(a.pc).local /\ PcOf(a.pc).remote = o.pc
        /\ PcOf(o.pc).local

\* The handshake state of a PeerLink, read off its transport.
HandshakeState(p) ==
    CASE Closed(p) -> "Closed"
      [] p.sig = "have-local-offer" /\ p.local /\ p.remote = NoPeer -> "HaveLocalOffer"
      [] p.sig = "have-remote-offer" /\ ~p.local /\ p.remote # NoPeer -> "HaveRemoteOffer"
      [] p.sig = "stable" /\ ~p.local /\ p.remote = NoPeer -> "Idle"
      [] p.sig = "stable" /\ p.local /\ p.remote # NoPeer -> "Connected"
      [] OTHER -> "None"

HandshakeMoves ==
    {<<"Idle", "HaveLocalOffer">>, <<"HaveLocalOffer", "Connected">>,
     <<"Idle", "HaveRemoteOffer">>, <<"HaveRemoteOffer", "Connected">>,
     <<"Idle", "Closed">>, <<"HaveLocalOffer", "Closed">>,
     <<"HaveRemoteOffer", "Closed">>, <<"Connected", "Closed">>}

HandshakeStatesSound ==
    \A c \in Clients : \A k \in 1..Len(pcs[c]) :
        LET p == pcs[c][k]
            h == HandshakeState(p)
        IN  /\ h # "None"
            /\ p.origin = "roster" =>
                   /\ LexLess(Uid(c), Uid(p.target))
                   /\ h # "HaveRemoteOffer"
            /\ p.origin = "offer" =>
                   /\ LexLess(Uid(p.target), Uid(c))
                   /\ h # "HaveLocalOffer"
            /\ p.conn = "connected" => h = "Connected"

HandshakeMovesSound ==
    \A c \in Clients : \A k \in 1..Len(pcs[c]) :
        LET h == HandshakeState(pcs[c][k])
            g == HandshakeState(pcs'[c][k])
        IN  h # g => <<h, g>> \in HandshakeMoves

\* C25: a PeerLink's handshake state moves Idle, HaveLocalOffer, Connected
\* or Idle, HaveRemoteOffer, Connected, and to Closed from any of them, and
\* in no other way.  A PeerLink made by the smaller-id side never holds a
\* remote offer, one made by the larger-id side never holds a local offer,
\* and none is Connected, or has its transport connected, without both its
\* local and its remote description.
C25_HandshakeStates == []HandshakeStatesSound /\ [][HandshakeMovesSound]_vars

\* Both ends of a session are Connected with their transports connected:
\* the initiator's PeerLink came by a local offer, the responder's by a
\* remote one.
C25_Witness ==
    \E a \in PcIds : \E b \in PcIds :
        /\ Live(a) /\ Live(b) /\ Peered(a, b)
        /\ PcOf(a).origin = "roster" /\ PcOf(b).origin = "offer"
        /\ HandshakeState(PcOf(a)) = "Connected"
        /\ HandshakeState(PcOf(b)) = "Connected"
        /\ PcOf(a).conn = "connected" /\ PcOf(b).conn = "connected"

\* C26: an offer handed to a client that already has a PeerLink for its
\* sender is ignored: no transport is made for the sender, the PeerLink and
\* its transport's descriptions stay as they are, no handler is suspended
\* on the offer, no answer is written, and the offer is deleted.
C26_DuplicateOfferIgnored ==
    [][\A c \in Clients : \A s \in Sessions :
         \A d \in Unseen(c, s, "offer") :
           (/\ subs[c][s] = "active"
            /\ pmap[c][d.from] # 0
            /\ d \in seenDocs'[c][s] \/ d \notin mail')
           => /\ d \notin mail'
              /\ pmap'[c][d.from] = pmap[c][d.from]
              /\ pcs'[c][pmap[c][d.from]] = pcs[c][pmap[c][d.from]]
              /\ \A k \in (Len(pcs[c]) + 1)..Len(pcs'[c]) : pcs'[c][k].target # d.from
              /\ ~\E t \in tasks' \ tasks : t.doc = d
              /\ ~\E a \in mail' \ mail : a.kind = "answer" /\ a.from = c
       ]_vars

\* u1 entered again and wrote the offer of its second transport; u2, whose
\* only transport still answers u1's first, has been handed that offer:
\* it is gone, and nothing of u2 refers to it.
C26_Witness ==
    /\ Len(pcs[1]) = 2 /\ pcs[1][2].target = 2
    /\ pcs[1][2].sig = "have-local-offer" /\ pcs[1][2].local
    /\ Len(pcs[2]) = 1 /\ pmap[2][1] = 1
    /\ ~Closed(pcs[2][1]) /\ pcs[2][1].remote = <<1, 1>>
    /\ ~\E d \in mail : d.pc = <<1, 2>> \/ d.re = <<1, 2>>
    /\ ~\E t \in tasks : t.doc.pc = <<1, 2>>

\* The step changes something only client c's code changes: its
\* transports, its peer map, its effect's runs, its listeners, its
\* suspended callbacks, its local tracks or its mute state.
Acts(c) ==
    \/ pcs'[c] # pcs[c] \/ pmap'[c] # pmap[c]
    \/ sess'[c] # sess[c] \/ mounted'[c] # mounted[c] \/ join'[c] # join[c]
    \/ subs'[c] # subs[c] \/ seenRoster'[c] # seenRoster[c]
    \/ {t \in tasks : t.c = c} # {t \in tasks' : t.c = c}
    \/ localStreamRef'[c] # localStreamRef[c]
    \/ isMuted'[c] # isMuted[c]

RecordChanged(i) == (i \in roster) # (i \in roster') \/ (i \in rosterMuted) # (i \in rosterMuted')

\* C27: a roster record is created, updated and deleted by its own client
\* only: a step of another client leaves it as it is, and no record
\* appears under an id that is no client's.  A mailbox document is
\* deleted by the client whose mailbox it is in, and is written by a client
\* to a mailbox that is not its own.
C27_Ownership ==
    [][/\ \A i \in Ids : RecordChanged(i) =>
             /\ i \in Clients
             /\ \A o \in Clients \ {i} : ~Acts(o)
       /\ \A d \in mail \ mail' :
             /\ d.to \in Clients
             /\ \A o \in Clients \ {d.to} : ~Acts(o)
       /\ \A d \in mail' \ mail :
             /\ d.to # d.from
             /\ d.from = d.pc[1]
             /\ Acts(d.from)
             /\ \A o \in Clients \ {d.from} : ~Acts(o)
      ]_vars

\* u1 has muted itself, which its record shows, and has emptied its own
\* mailboxes of u2's answer and candidate, while u2 has left: u2's record
\* is gone and u1's is still there.
C27_Witness ==
    /\ 1 \in roster /\ 2 \notin roster
    /\ 1 \in rosterMuted /\ isMuted[1]
    /\ torn[2][1] /\ published[2][1]
    /\ ~\E d \in mail : d.to = 1
    /\ \E k \in 1..Len(pcs[1]) :
          /\ pcs[1][k].target = 2 /\ pcs[1][k].remote # NoPeer /\ pcs[1][k].cand

\* C28: the speakingPeers value changes identity only on a tick whose set
\* of speaking ids differs, as a set, from the set emitted before, and the
\* new value is that set; a tick that finds an equal set keeps the value.
C28_SpeakingSetStable ==
    [][\A c \in Clients :
         /\ speakingPeers'[c].ref # speakingPeers[c].ref =>
                /\ CurrentlySpeaking(c) # speakingPeers[c].ids
                /\ speakingPeers'[c].ids = CurrentlySpeaking(c)
         /\ speakingPeers'[c].ids # speakingPeers[c].ids =>
                speakingPeers'[c].ref # speakingPeers[c].ref
         /\ CurrentlySpeaking(c) = speakingPeers[c].ids =>
                speakingPeers'[c] = speakingPeers[c]
      ]_vars

\* Two sets have been emitted, the second of two speaking ids, and the
\* analysers now report the same two ids in frequency data that differ
\* from what they reported: the next tick finds an equal set.
C28_Witness ==
    /\ speakingPeers[1].ref = 0
    /\ Cardinality(speakingPeers[1].ids) = 2
    /\ CurrentlySpeaking(1) = speakingPeers[1].ids
    /\ \E u \in speakingPeers[1].ids : freqData[1][u] = [i \in 1..FreqBins |-> MaxByte]
    /\ \E u \in speakingPeers[1].ids : freqData[1][u] = [i \in 1..FreqBins |-> SpeakThreshold + 1]

\* The stream in the localStream state has a track that has not been
\* stopped.
LocalStreamLive(c) ==
    LET r == localStreamRef[c] IN
    \/ r[2] = "raw" /\ rawTrack[c][r[1]] = "live"
    \/ r[2] = "proc" /\ procTrack[c][r[1]] = "live"

\* C29: the detection loop runs only while a local stream exists: no frame
\* is requested before the stream is acquired or after the cleanup has
\* stopped its tracks, and at most one frame is pending at any time.
C29_LoopOnlyWithStream ==
    \A c \in Clients :
        /\ frames[c] <= 1
        /\ frames[c] > 0 => LocalStreamLive(c)

\* The level of the own analyser's buffer, said without a root: 100, or
\* the v with (v / 300)^2 <= mean of ((sample - 128) / 128)^2 <
\* ((v + 1) / 300)^2.
IsLevelOf(v, buf) ==
    LET lhs == ((LevelGain * LevelGain) \div 16) * SumSquares(buf)
        unit == ((MidByte * MidByte) \div 16) * Len(buf)
    IN  /\ v \in 0..LevelMax
        /\ v * v * unit <= lhs
        /\ v < LevelMax => lhs < (v + 1) * (v + 1) * unit

VoiceLevelInRange == \A c \in Clients : voiceLevel[c] \in 0..LevelMax

VoiceLevelIsLocal ==
    \A c \in Clients :
        voiceLevel'[c] # voiceLevel[c] \/ frameRef'[c] # frameRef[c] =>
            IF c \in analysers[c] THEN IsLevelOf(voiceLevel'[c], timeData[c][c])
            ELSE voiceLevel'[c] = 0

\* C30: the level a tick emits is within 0..100 for every buffer of
\* time-domain bytes, it is the level of the own analyser's buffer
\* whatever the peers' analysers hold, and it is 0 when no analyser is
\* registered under the own id.
C30_LevelInRange == []VoiceLevelInRange /\ [][VoiceLevelIsLocal]_vars

\* A tick has emitted a level strictly between the ends of the range from
\* the own buffer while a loud peer's analyser is registered as well.
C30_Witness ==
    /\ analysers[1] = {1, 2}
    /\ timeData[1][2] = Loud
    /\ voiceLevel[1] \in 1..(LevelMax - 1)
    /\ IsLevelOf(voiceLevel[1], timeData[1][1])

\* The nodes that feed node n, and the shapes of the outbound path.
Feeders(g, n) == {e[1] : e \in {x \in g : x[2] = n}}
Nodes(g) == {e[1] : e \in g} \cup {e[2] : e \in g}
CustomStages == {"hpf", "chainFilter", "rnnoise", "compressor", "chainCompressor"}
\* The source alone feeds the destination and no custom stage exists.
PassThrough(g) ==
    /\ Feeders(g, "destination") = {"source"}
    /\ Nodes(g) \cap CustomStages = {}
\* The destination is fed by a compressor alone, the compressor by the
\* noise suppression alone, the noise suppression by the source, directly
\* or through a high-pass filter.
Enhanced(g) ==
    \E k \in {"compressor", "chainCompressor"} :
        /\ Feeders(g, "destination") = {k}
        /\ Feeders(g, k) = {"rnnoise"}
        /\ \/ Feeders(g, "rnnoise") = {"source"}
           \/ \E f \in {"hpf", "chainFilter"} :
                 Feeders(g, "rnnoise") = {f} /\ Feeders(g, f) = {"source"}
\* The run of c's join effect that is mounted has built its graph with a
\* worklet that works.
BuiltWithWorklet(c) ==
    /\ mounted[c]
    /\ joinStream[c][sess[c]] = "final"
    /\ worklet[c][sess[c]] = "ready"

\* C31: the quality preset alone chooses the topology: a graph built with
\* quality basic connects the source to the destination and has no custom
\* stage, and one built with balanced, professional or ultra has the noise
\* suppression followed by compression on its outbound path, whatever the
\* other options are.
C31_TopologyByQuality ==
    \A c \in Clients :
        BuiltWithWorklet(c) =>
            IF audioOptions[c].audioQuality = "basic" THEN PassThrough(graph[c])
            ELSE Enhanced(graph[c])

\* The destination is fed by the compressor alone, the compressor by the
\* source alone, and there is no noise-suppression node.
CompressionOnly(g) ==
    /\ Feeders(g, "destination") = {"compressor"}
    /\ Feeders(g, "compressor") = {"source"}
    /\ "rnnoise" \notin Nodes(g)
\* The noise-suppression stage of run s failed while an enhanced graph was
\* being built.
WorkletFailed(c, s) ==
    /\ worklet[c][s] \in {"noModule", "noNode"}
    /\ UseRNNoiseProcessing(audioOptions[c])

\* C32: a noise-suppression stage that fails to initialise (its module does
\* not load, or its node cannot be constructed) while an enhanced graph is
\* built does not fail the join: the run has its output track from the
\* destination, has published its record and goes on to subscribe, no
\* alert was raised, and while the run is mounted its graph is source,
\* compressor, destination.
C32_FallbackOnWorkletFailure ==
    \A c \in Clients : \A s \in Sessions :
        WorkletFailed(c, s) =>
            /\ joinStream[c][s] = "final"
            /\ procTrack[c][s] # "none"
            /\ published[c][s]
            /\ join[c][s] \in {"setdoc", "done"}
            /\ ~alerted[c][s]
            /\ (mounted[c] /\ s = sess[c]) => CompressionOnly(graph[c])

\* One client's module did not load, the other's node could not be
\* constructed: both are in the room with their listeners, on the
\* compression-only graph.
C32_Witness ==
    /\ WorkletFailed(1, 1) /\ worklet[1][1] = "noModule"
    /\ WorkletFailed(2, 1) /\ worklet[2][1] = "noNode"
    /\ \A c \in Clients :
          /\ mounted[c] /\ subs[c][1] = "active" /\ c \in roster
          /\ procTrack[c][1] = "live"
          /\ CompressionOnly(graph[c])

\* The mounted run of c's join effect has its graph and is in the room or
\* on its way into it.
InRoom(c) == mounted[c] /\ join[c][sess[c]] \in {"setdoc", "done"}
\* The cleanup of c's mounted run and the start of a new run, in one step.
Rebuilt(c) ==
    /\ torn'[c][sess[c]]
    /\ sess'[c] = sess[c] + 1
    /\ join'[c][sess'[c]] = "mic"

\* C33: a change of the quality preset while the client is in a room
\* rebuilds the graph: the step that changes the preset tears the run down
\* and starts a new one, which builds the graph anew.
C33_PresetChangeRebuilds ==
    [][\A c \in Clients :
         (InRoom(c) /\ audioOptions'[c].audioQuality # audioOptions[c].audioQuality)
             => Rebuilt(c)]_vars

\* The pending timer that the latest failure of PeerLink k of c started:
\* its age is the time the transport has been failed without a break.
LatestTimers(c, k) ==
    {u \in Timers : u.c = c /\ u.k = k /\ u.docs = <<pcs[c][k].fails>>}

\* C34: a grace timer closes a PeerLink only when the transport has been
\* failed for the whole grace period without a break: at the close, the
\* timer of the transport's latest failure is due.
C34_ClosedAfterFullGrace ==
    [][\A t \in Timers :
         (Fires(t) /\ ~Closed(pcs[t.c][t.k]) /\ Closed(pcs'[t.c][t.k])) =>
             \A u \in LatestTimers(t.c, t.k) : u.i >= GraceSeconds]_vars

\* C35: an answer is set as remote description only on the transport whose
\* offer it answers: never on a newer transport for the same participant
\* id, made after a drop or after a leave and re-join.
C35_AnswerMatchesOffer ==
    [][\A t \in AnswerTasks :
         (t \notin tasks' /\ pcs'[t.c][t.k].nAns # pcs[t.c][t.k].nAns) =>
             t.doc.re = <<t.c, t.k>>]_vars

\* C36: once no roster handler of a listening client is suspended, the
\* participants list is the roster snapshot the client was handed last.
C36_ListIsLatestSnapshot ==
    \A c \in Clients :
        LET s == sess[c] IN
        (/\ mounted[c] /\ s > 0 /\ subs[c][s] = "active"
         /\ seenRoster[c][s] # {0}
         /\ ~\E t \in RosterTasks : t.c = c)
        => participants[c] = seenRoster[c][s]

\* The mounted run of c has handed its stream to join() and the stream's
\* track has not been stopped: c has a live outbound track.
OutboundLive(c) == InRoom(c) /\ LocalStreamLive(c)

\* C37: while a client has a live outbound track, isMuted says whether
\* that track is disabled, and once join()'s roster write has resolved the
\* client's roster record says the same, whatever toggles, leaves and
\* re-joins came before.
C37_MutedMatchesTrack ==
    \A c \in Clients :
        OutboundLive(c) =>
            /\ isMuted[c] = (localStreamRef[c] \in disabledTracks[c])
            /\ (join[c][sess[c]] = "done" /\ c \in roster) =>
                   (c \in rosterMuted) = isMuted[c]

\* The ids c has a PeerLink for.
LinkedIds(c) == {o \in Ids : pmap[c][o] # 0}

\* C38: the monitor holds analysers for the own id and for peers with a
\* PeerLink only, and every audio element and remote source node belongs
\* to a peer with a PeerLink; a hook that has been torn down holds no
\* analyser, no audio element and no remote source node.
C38_SinksFollowLinks ==
    \A c \in Clients :
        /\ analysers[c] \subseteq {c} \cup LinkedIds(c)
        /\ audioElements[c] \subseteq LinkedIds(c)
        /\ remoteSources[c] \subseteq LinkedIds(c)
        /\ (sess[c] > 0 /\ ~mounted[c]) =>
               analysers[c] = {} /\ audioElements[c] = {} /\ remoteSources[c] = {}

====
